---- MODULE Spec2Model ----
(***************************************************************************)
(* Model of the BeatConnect license activation engine                      *)
(* (beatconnect::Activation::Impl, sdk/activation/src/Activation.cpp), of  *)
(* the machine fingerprint it sends (sdk/activation/src/MachineId.cpp) and *)
(* of the asset downloader (beatconnect::AssetDownloader::Impl,            *)
(* beatconnect-sdk/activation/src/AssetDownloader.cpp).                    *)
(*                                                                         *)
(* The engine's memory is the four fields of Activation::Impl; the disk    *)
(* holds the state files, one per state path; the licensing server is the  *)
(* environment: each network operation draws the server's reply from       *)
(* Replies.  In Spec operations run one at a time, each as one atomic      *)
(* step; the specifications of threads cut them at their locked blocks.    *)
(* JUCE file operations (replaceWithText, deleteFile) are taken to         *)
(* succeed on a non-empty path: the code has no branch for their failure.  *)
(***************************************************************************)
EXTENDS Integers, Sequences, FiniteSets, TLC

VARIABLES
    configured,      \* Impl::configured
    activated,       \* Impl::activated
    activationInfo,  \* Impl::activationInfo
    statePath,       \* Impl::statePath
    disk,            \* the file system: state path -> file
    machine,         \* the platform identifiers of the machine the process runs on
    lastOp,          \* history: the operation that ran last
    lastStatus,      \* history: the ActivationStatus it returned ("None" for void operations)
    lastRequest,     \* history: the network request it issued, if any
    lastReturn,      \* history: the value an accessor returned
    prev,            \* history: at construction, the operation that ran before it
    lastReply,       \* history: the server reply the last operation received, if any
    memo,            \* history: what the accessors returned since the record last changed
    fingerprints,    \* history: what MachineId::generate and generateShort returned
    dlConfigured,        \* AssetDownloader::Impl::configured
    skipExisting,        \* AssetDownloader::Impl::config.skipExisting
    activeDownloads,     \* AssetDownloader::Impl::activeDownloads
    cancelledDownloads,  \* AssetDownloader::Impl::cancelledDownloads
    downloadedAssets,    \* AssetDownloader::Impl::downloadedAssets: asset id -> local path
    targetFiles,         \* the download directory: file name -> file
    tempFiles,           \* the download directory: file name -> its ".download" sibling
    dlCalls,             \* the download calls in progress, one per calling thread
    dlLast,              \* history: the download call that returned last
    cancelRequested,     \* AssetDownloader::Impl::cancelRequested
    obtained,            \* history: the assets a download got and no deleteDownload removed
    batch,               \* the thread of downloadBatch: position, locals and history
    threads,             \* the threads that run engine operations: position and locals
    mutex,               \* Impl::mutex: the thread that holds it, or "free"
    alive,               \* the Activation object has not been destroyed
    validateOnStartup    \* ActivationConfig::validateOnStartup

\* The engine, its disk and the history of its last operation.
engineVars == <<configured, activated, activationInfo, statePath, disk, machine,
                lastOp, lastStatus, lastRequest, lastReturn, prev, lastReply>>

\* The asset downloader, its directory and the history of its last call.
dlVars == <<dlConfigured, skipExisting, activeDownloads, cancelledDownloads,
            downloadedAssets, targetFiles, tempFiles, dlCalls, dlLast,
            cancelRequested, obtained, batch>>

\* The threads inside the engine, its mutex, its lifetime and its startup flag.
threadVars == <<threads, mutex, alive, validateOnStartup>>

vars == <<engineVars, memo, fingerprints, dlVars, threadVars>>

engine == <<configured, activated, activationInfo, statePath>>

(***************************************************************************)
(* Bounds and input domains                                                *)
(***************************************************************************)

\* Largest activation count a server reply carries.
MaxCount == 2

\* Accessor calls that are counted between two changes of the record.
MaxCalls == 2

Counts == 1..MaxCount

\* The activation limits (max_activations) a server reply carries.
Limits == {MaxCount + 1}

Codes == {"CODE-A", "CODE-B"}

\* Raw platform identifier strings; "" is a machine with no identifier available.
MachineInfos == {"", "HW-1"}

\* Values of ActivationConfig::statePath; "" asks for the default path.
ConfigPaths == {""}

DefaultStatePath == "appdata/BeatConnect/plugin/activation.json"

Paths == {IF p = "" THEN DefaultStatePath ELSE p : p \in ConfigPaths}

ServerTimestamps == {"2024-01-01T00:00:00Z"}

LocalTimestamps == {"NOW"}

(***************************************************************************)
(* MachineId                                                               *)
(***************************************************************************)

\* juce::SHA256(info).toHexString(): the SHA-256 digest of the identifier
\* string in lower-case hex, for the strings generate can be given.
hashMachineInfo(info) ==
    CASE info = "FALLBACK_ID" -> "e8b3c14683cb27aa24b14ca76864030a1b85d98bfdd81bacbaf93aa745248408"
      [] info = "HW-1"        -> "a8514fa5a49ec82c18ffce424f1f94e0eb60f0758ac393f1e6b4dd7d64e77a0e"
      [] info = ""            -> "e3b0c44298fc1c149afbf4c8996fb92427ae41e4649b934ca495991b7852b855"

\* generate that hashes whatever the platform gave, even nothing.
generate_NoSentinel(machineInfo) == hashMachineInfo(machineInfo)

\* MachineId::generate, given what the platform function returned.
generate(machineInfo) ==
    hashMachineInfo(IF machineInfo = "" THEN "FALLBACK_ID" ELSE machineInfo)

\* MachineId::generateShort: full.substr(0, 16)
generateShort(machineInfo) == SubSeq(generate(machineInfo), 1, 16)

\* No thread has asked for the fingerprint yet. called and shortCalled tell
\* that generate and generateShort have returned, of and shortOf on which
\* machine, first what generate returned first on that machine.
NoFingerprints ==
    [called |-> FALSE, of |-> "", first |-> "", full |-> "",
     shortCalled |-> FALSE, shortOf |-> "", short |-> ""]

(***************************************************************************)
(* Data                                                                    *)
(***************************************************************************)

\* ActivationInfo{} : the default-constructed record.
EmptyInfo ==
    [activationCode |-> "", machineId |-> "", activatedAt |-> "", expiresAt |-> "",
     currentActivations |-> 0, maxActivations |-> 0, isValid |-> FALSE]

\* No file at a path.
NoFile ==
    [exists |-> FALSE, wellFormed |-> FALSE,
     activation_code |-> "", machine_id |-> "", activated_at |-> "",
     is_valid |-> FALSE, current_activations |-> 0, max_activations |-> 0]

\* A file that exists but does not hold a JSON object.
CorruptFile == [NoFile EXCEPT !.exists = TRUE]

NoRequest == [sent |-> FALSE, endpoint |-> "", code |-> "", machine_id |-> ""]

Request(endpoint, code, machineId) ==
    [sent |-> TRUE, endpoint |-> endpoint, code |-> code, machine_id |-> machineId]

NoReturn == [flag |-> FALSE, present |-> FALSE, info |-> EmptyInfo]

NoPrev == [op |-> "none", status |-> "None", machine |-> ""]

\* No accessor has returned anything yet.
NoMemo == [flagCalls |-> 0, flag |-> FALSE,
           infoCalls |-> 0, present |-> FALSE, info |-> EmptyInfo]

(***************************************************************************)
(* Server replies                                                          *)
(***************************************************************************)

\* Error texts, as character sequences so that std::string::find is a real
\* substring search.
TxtInvalidCode == <<"I","n","v","a","l","i","d"," ","c","o","d","e">>
TxtLowerInvalid == <<"i","n","v","a","l","i","d"," ","c","o","d","e">>
TxtRevoked == <<"L","i","c","e","n","s","e"," ","r","e","v","o","k","e","d">>
TxtMaximum == <<"m","a","x","i","m","u","m"," ","r","e","a","c","h","e","d">>
TxtLimit == <<"O","v","e","r"," ","l","i","m","i","t">>
TxtInternal == <<"I","n","t","e","r","n","a","l">>
TxtInvalidRevoked == <<"I","n","v","a","l","i","d",":"," ","r","e","v","o","k","e","d">>

ErrorTexts == {TxtInvalidCode, TxtLowerInvalid, TxtRevoked, TxtMaximum, TxtLimit,
               TxtInternal, TxtInvalidRevoked}

NeedleInvalid == <<"I","n","v","a","l","i","d">>
NeedleRevoked == <<"r","e","v","o","k","e","d">>
NeedleMaximum == <<"m","a","x","i","m","u","m">>
NeedleLimit == <<"l","i","m","i","t">>

\* std::string::find(needle) != npos
Find(hay, needle) ==
    \E i \in 1..(Len(hay) - Len(needle) + 1) :
        SubSeq(hay, i, i + Len(needle) - 1) = needle

BlankReply ==
    [kind |-> "object", hasError |-> FALSE, error |-> <<>>,
     has_activated_at |-> FALSE, activated_at |-> "",
     has_activations |-> FALSE, activations |-> 0,
     has_current_activations |-> FALSE, current_activations |-> 0,
     has_max_activations |-> FALSE, max_activations |-> 0,
     valid |-> "absent"]

\* No request was sent, so no reply was received.
NoReply == [BlankReply EXCEPT !.kind = "none"]

\* createInputStream returned null / body is not JSON / JSON but not an object.
FailureReplies ==
    {[BlankReply EXCEPT !.kind = k] : k \in {"noStream", "notJson", "notObject"}}

ErrorReplies ==
    {[BlankReply EXCEPT !.hasError = TRUE, !.error = t] : t \in ErrorTexts}

ActivateSuccessReplies ==
    {[BlankReply EXCEPT !.has_activated_at = at # "", !.activated_at = at,
                        !.has_activations = a # 0, !.activations = a,
                        !.has_current_activations = c # 0, !.current_activations = c,
                        !.has_max_activations = m # 0, !.max_activations = m] :
        at \in ServerTimestamps \cup {""}, a \in Counts \cup {0},
        c \in Counts \cup {0}, m \in Limits \cup {0}}

DeactivateSuccessReplies == {BlankReply}

ValidateSuccessReplies ==
    {[BlankReply EXCEPT !.valid = v] : v \in {"absent", "true", "false"}}

ActivateReplies == FailureReplies \cup ErrorReplies \cup ActivateSuccessReplies
DeactivateReplies == FailureReplies \cup ErrorReplies \cup DeactivateSuccessReplies
ValidateReplies == FailureReplies \cup ErrorReplies \cup ValidateSuccessReplies

(***************************************************************************)
(* State persistence                                                       *)
(***************************************************************************)

\* loadState that parses the file and fills the record from it.
loadState_Parse(path, dsk, act, info) ==
    IF path = "" THEN [activated |-> act, activationInfo |-> info]
    ELSE IF dsk[path].exists
         THEN [activated |-> TRUE,
               activationInfo |->
                   [info EXCEPT !.isValid = TRUE,
                                !.activationCode = dsk[path].activation_code,
                                !.machineId = dsk[path].machine_id,
                                !.activatedAt = dsk[path].activated_at,
                                !.currentActivations = dsk[path].current_activations,
                                !.maxActivations = dsk[path].max_activations]]
         ELSE [activated |-> act, activationInfo |-> info]

\* loadState: existence of the file is all that is looked at.
loadState(path, dsk, act, info) ==
    IF path = "" THEN [activated |-> act, activationInfo |-> info]
    ELSE IF dsk[path].exists
         THEN [activated |-> TRUE, activationInfo |-> [info EXCEPT !.isValid = TRUE]]
         ELSE [activated |-> act, activationInfo |-> info]

\* The JSON object saveState writes.
stateJson(info) ==
    [exists |-> TRUE, wellFormed |-> TRUE,
     activation_code |-> info.activationCode,
     machine_id |-> info.machineId,
     activated_at |-> info.activatedAt,
     is_valid |-> info.isValid,
     current_activations |-> info.currentActivations,
     max_activations |-> info.maxActivations]

\* saveState with the write left out.
saveState_NoWrite(path, dsk, info) == dsk

\* juce::File("") names no file: nothing is written.
saveState(path, dsk, info) ==
    IF path \in DOMAIN dsk THEN [dsk EXCEPT ![path] = stateJson(info)] ELSE dsk

\* clearState with the delete left out.
clearState_NoDelete(path, dsk) == dsk

clearState(path, dsk) ==
    IF path \in DOMAIN dsk /\ dsk[path].exists
    THEN [dsk EXCEPT ![path] = NoFile]
    ELSE dsk

(***************************************************************************)
(* Accessors                                                               *)
(***************************************************************************)

\* isActivated that also asks the disk whether the state file is still there.
isActivated_ChecksFile ==
    /\ activated
    /\ activationInfo.isValid
    /\ statePath \in DOMAIN disk
    /\ disk[statePath].exists

\* isActivated that looks at the activated flag alone.
isActivated_FlagOnly == activated

isActivated == activated /\ activationInfo.isValid

getActivationInfo ==
    IF activated THEN [present |-> TRUE, info |-> activationInfo]
    ELSE [present |-> FALSE, info |-> EmptyInfo]

(***************************************************************************)
(* Network operations, as functions of the engine state and the reply      *)
(***************************************************************************)

\* activateErrorStatus that looks for "revoked" before "Invalid".
activateErrorStatus_RevokedFirst(error) ==
    IF Find(error, NeedleRevoked) THEN "Revoked"
    ELSE IF Find(error, NeedleInvalid) THEN "Invalid"
    ELSE IF Find(error, NeedleMaximum) \/ Find(error, NeedleLimit) THEN "MaxReached"
    ELSE "ServerError"

\* The status activate gives a reply that carries an error field.
activateErrorStatus(error) ==
    IF Find(error, NeedleInvalid) THEN "Invalid"
    ELSE IF Find(error, NeedleRevoked) THEN "Revoked"
    ELSE IF Find(error, NeedleMaximum) \/ Find(error, NeedleLimit) THEN "MaxReached"
    ELSE "ServerError"

\* activateInfo that reads current_activations before activations.
activateInfo_PreferCurrent(info, code, machineId, reply, now) ==
    [info EXCEPT
        !.activationCode = code,
        !.machineId = machineId,
        !.isValid = TRUE,
        !.activatedAt = IF reply.has_activated_at THEN reply.activated_at ELSE now,
        !.currentActivations =
            IF reply.has_current_activations THEN reply.current_activations
            ELSE IF reply.has_activations THEN reply.activations
            ELSE @,
        !.maxActivations =
            IF reply.has_max_activations THEN reply.max_activations ELSE @]

\* activateInfo that leaves isValid as it was.
activateInfo_KeepValid(info, code, machineId, reply, now) ==
    [info EXCEPT
        !.activationCode = code,
        !.machineId = machineId,
        !.activatedAt = IF reply.has_activated_at THEN reply.activated_at ELSE now,
        !.currentActivations =
            IF reply.has_activations THEN reply.activations
            ELSE IF reply.has_current_activations THEN reply.current_activations
            ELSE @,
        !.maxActivations =
            IF reply.has_max_activations THEN reply.max_activations ELSE @]

\* The record activate builds from a reply without an error field.
activateInfo(info, code, machineId, reply, now) ==
    [info EXCEPT
        !.activationCode = code,
        !.machineId = machineId,
        !.isValid = TRUE,
        !.activatedAt = IF reply.has_activated_at THEN reply.activated_at ELSE now,
        !.currentActivations =
            IF reply.has_activations THEN reply.activations
            ELSE IF reply.has_current_activations THEN reply.current_activations
            ELSE @,
        !.maxActivations =
            IF reply.has_max_activations THEN reply.max_activations ELSE @]

\* activate that marks the record invalid when the server rejects the code.
activate_InvalidateOnError(cfgd, path, act, info, dsk, code, machineId, reply, now) ==
    LET same(st, req) == [status |-> st, request |-> req, activated |-> act,
                          activationInfo |-> info, disk |-> dsk]
        req == Request("activate", code, machineId)
    IN  IF ~cfgd THEN same("NotConfigured", NoRequest)
        ELSE IF reply.kind = "noStream" THEN same("NetworkError", req)
        ELSE IF reply.kind = "notJson" THEN same("ServerError", req)
        ELSE IF reply.kind = "notObject" THEN same("ServerError", req)
        ELSE IF reply.hasError
             THEN [status |-> activateErrorStatus(reply.error), request |-> req,
                   activated |-> act,
                   activationInfo |-> [info EXCEPT !.isValid = FALSE],
                   disk |-> dsk]
        ELSE LET newInfo == activateInfo(info, code, machineId, reply, now)
             IN  [status |-> "Valid", request |-> req, activated |-> TRUE,
                  activationInfo |-> newInfo,
                  disk |-> saveState(path, dsk, newInfo)]

\* activate(code): status, request, and the memory and disk it leaves.
activate(cfgd, path, act, info, dsk, code, machineId, reply, now) ==
    LET same(st, req) == [status |-> st, request |-> req, activated |-> act,
                          activationInfo |-> info, disk |-> dsk]
        req == Request("activate", code, machineId)
    IN  IF ~cfgd THEN same("NotConfigured", NoRequest)
        ELSE IF reply.kind = "noStream" THEN same("NetworkError", req)
        ELSE IF reply.kind = "notJson" THEN same("ServerError", req)
        ELSE IF reply.kind = "notObject" THEN same("ServerError", req)
        ELSE IF reply.hasError THEN same(activateErrorStatus(reply.error), req)
        ELSE LET newInfo == activateInfo(info, code, machineId, reply, now)
             IN  [status |-> "Valid", request |-> req, activated |-> TRUE,
                  activationInfo |-> newInfo,
                  disk |-> saveState(path, dsk, newInfo)]

\* deactivate that clears the local state before it looks at the reply.
deactivate_Optimistic(cfgd, path, act, info, dsk, reply) ==
    LET result(st, req, a, i, d) == [status |-> st, request |-> req, activated |-> a,
                                     activationInfo |-> i, disk |-> d]
        req == Request("deactivate", info.activationCode, info.machineId)
        cleared == clearState(path, dsk)
    IN  IF ~cfgd THEN result("NotConfigured", NoRequest, act, info, dsk)
        ELSE IF ~act THEN result("NotActivated", NoRequest, act, info, dsk)
        ELSE IF reply.kind = "noStream"
             THEN result("NetworkError", req, FALSE, EmptyInfo, cleared)
        ELSE IF reply.kind # "object"
             THEN result("ServerError", req, FALSE, EmptyInfo, cleared)
        ELSE IF reply.hasError
             THEN result("ServerError", req, FALSE, EmptyInfo, cleared)
        ELSE result("Valid", req, FALSE, EmptyInfo, cleared)

\* deactivate()
deactivate(cfgd, path, act, info, dsk, reply) ==
    LET same(st, req) == [status |-> st, request |-> req, activated |-> act,
                          activationInfo |-> info, disk |-> dsk]
        req == Request("deactivate", info.activationCode, info.machineId)
    IN  IF ~cfgd THEN same("NotConfigured", NoRequest)
        ELSE IF ~act THEN same("NotActivated", NoRequest)
        ELSE IF reply.kind = "noStream" THEN same("NetworkError", req)
        ELSE IF reply.kind # "object" THEN same("ServerError", req)
        ELSE IF reply.hasError THEN same("ServerError", req)
        ELSE [status |-> "Valid", request |-> req, activated |-> FALSE,
              activationInfo |-> EmptyInfo,
              disk |-> clearState(path, dsk)]

\* validate that takes a missing valid field for true.
validate_AbsentIsValid(cfgd, act, info, reply) ==
    LET result(st, req, newInfo) ==
            [status |-> st, request |-> req, activated |-> act,
             activationInfo |-> newInfo]
        req == Request("validate", info.activationCode, info.machineId)
    IN  IF ~cfgd THEN result("NotConfigured", NoRequest, info)
        ELSE IF ~act THEN result("NotActivated", NoRequest, info)
        ELSE IF reply.kind = "noStream" THEN result("NetworkError", req, info)
        ELSE IF reply.kind # "object" THEN result("ServerError", req, info)
        ELSE IF reply.hasError
             THEN IF Find(reply.error, NeedleRevoked)
                  THEN result("Revoked", req, [info EXCEPT !.isValid = FALSE])
                  ELSE IF Find(reply.error, NeedleInvalid)
                  THEN result("Invalid", req, [info EXCEPT !.isValid = FALSE])
                  ELSE result("ServerError", req, info)
        ELSE LET isValid == (reply.valid # "false")
             IN  result(IF isValid THEN "Valid" ELSE "Invalid", req,
                        [info EXCEPT !.isValid = isValid])

\* validate without the check of the activated flag.
validate_NoActivatedCheck(cfgd, act, info, reply) ==
    LET result(st, req, newInfo) ==
            [status |-> st, request |-> req, activated |-> act,
             activationInfo |-> newInfo]
        req == Request("validate", info.activationCode, info.machineId)
    IN  IF ~cfgd THEN result("NotConfigured", NoRequest, info)
        ELSE IF reply.kind = "noStream" THEN result("NetworkError", req, info)
        ELSE IF reply.kind # "object" THEN result("ServerError", req, info)
        ELSE IF reply.hasError
             THEN IF Find(reply.error, NeedleRevoked)
                  THEN result("Revoked", req, [info EXCEPT !.isValid = FALSE])
                  ELSE IF Find(reply.error, NeedleInvalid)
                  THEN result("Invalid", req, [info EXCEPT !.isValid = FALSE])
                  ELSE result("ServerError", req, info)
        ELSE LET isValid == (reply.valid = "true")
             IN  result(IF isValid THEN "Valid" ELSE "Invalid", req,
                        [info EXCEPT !.isValid = isValid])

\* validate that drops the record when the server reports a revoked license.
validate_ClearOnRevoked(cfgd, act, info, reply) ==
    LET result(st, req, newInfo) ==
            [status |-> st, request |-> req, activated |-> act,
             activationInfo |-> newInfo]
        req == Request("validate", info.activationCode, info.machineId)
    IN  IF ~cfgd THEN result("NotConfigured", NoRequest, info)
        ELSE IF ~act THEN result("NotActivated", NoRequest, info)
        ELSE IF reply.kind = "noStream" THEN result("NetworkError", req, info)
        ELSE IF reply.kind # "object" THEN result("ServerError", req, info)
        ELSE IF reply.hasError
             THEN IF Find(reply.error, NeedleRevoked)
                  THEN result("Revoked", req, EmptyInfo)
                  ELSE IF Find(reply.error, NeedleInvalid)
                  THEN result("Invalid", req, [info EXCEPT !.isValid = FALSE])
                  ELSE result("ServerError", req, info)
        ELSE LET isValid == (reply.valid = "true")
             IN  result(IF isValid THEN "Valid" ELSE "Invalid", req,
                        [info EXCEPT !.isValid = isValid])

\* validate()
validate(cfgd, act, info, reply) ==
    LET result(st, req, newInfo) ==
            [status |-> st, request |-> req, activated |-> act,
             activationInfo |-> newInfo]
        req == Request("validate", info.activationCode, info.machineId)
    IN  IF ~cfgd THEN result("NotConfigured", NoRequest, info)
        ELSE IF ~act THEN result("NotActivated", NoRequest, info)
        ELSE IF reply.kind = "noStream" THEN result("NetworkError", req, info)
        ELSE IF reply.kind # "object" THEN result("ServerError", req, info)
        ELSE IF reply.hasError
             THEN IF Find(reply.error, NeedleRevoked)
                  THEN result("Revoked", req, [info EXCEPT !.isValid = FALSE])
                  ELSE IF Find(reply.error, NeedleInvalid)
                  THEN result("Invalid", req, [info EXCEPT !.isValid = FALSE])
                  ELSE result("ServerError", req, info)
        ELSE LET isValid == (reply.valid = "true")
             IN  result(IF isValid THEN "Valid" ELSE "Invalid", req,
                        [info EXCEPT !.isValid = isValid])

\* configure that derives the state path and does not load the state.
configure_NoLoad(configPath, dsk) ==
    LET path == IF configPath = "" THEN DefaultStatePath ELSE configPath
    IN  [configured |-> TRUE, statePath |-> path,
         activated |-> FALSE, activationInfo |-> EmptyInfo]

\* configure(config) on a fresh Impl: the state path, then loadState.
configure(configPath, dsk) ==
    LET path == IF configPath = "" THEN DefaultStatePath ELSE configPath
        loaded == loadState(path, dsk, FALSE, EmptyInfo)
    IN  [configured |-> TRUE, statePath |-> path,
         activated |-> loaded.activated, activationInfo |-> loaded.activationInfo]

(***************************************************************************)
(* The asset downloader: data                                              *)
(***************************************************************************)

\* The body of every resource is Chunks buffers long.
Chunks == 2

AssetIds == {"asset-1", "asset-2"}

\* The name getAssetInfo reports for an asset, when it reports one.
InfoNames == {"kick.wav"}

\* The file names a download resolves to: info->name, else the asset id.
FileNames == AssetIds \cup InfoNames

\* The threads that call download and downloadFromUrl.
DlCalls == {"caller-1", "caller-2", "batch-1"}

\* What createInputStream gives for the presigned URL: a stream, no stream
\* with HTTP status 401, 403 or 404, or no stream for another reason.
StreamOutcomes == {"ok", "401", "403", "404", "fail"}

\* enum class DownloadStatus
DownloadStatus ==
    {"Success", "NotFound", "Unauthorized", "NetworkError", "DiskError",
     "Cancelled", "AlreadyExists", "InvalidUrl", "Corrupted"}

\* enum class ActivationStatus
ActivationStatus ==
    {"Valid", "Invalid", "Revoked", "MaxReached", "NetworkError", "ServerError",
     "NotConfigured", "AlreadyActive", "NotActivated"}

\* DownloaderConfig::verifyChecksums, which configure stores and nothing reads.
verifyChecksums == TRUE

\* A file of the download directory: whether it exists and how many buffers
\* of the body it holds.
NoDownloadFile == [exists |-> FALSE, chunks |-> 0]

\* A thread that is in no download call.
IdleCall == [pc |-> "idle", op |-> "none", assetId |-> "", fileName |-> "", read |-> 0]

\* requests are the network requests the call issued, cause is what ended it
\* and matches tells whether what it received is what the checksum was taken of.
NoDlLast ==
    [op |-> "none", call |-> "", assetId |-> "", status |-> "None", path |-> "",
     requests |-> {}, cause |-> "", matches |-> TRUE]

\* No downloadBatch has been called. current, succeeded and failed are the
\* counters of the thread; attempted and results are the history of its calls
\* of download; cbCount, cbSucceeded and cbFailed that of its callback.
NoBatch ==
    [pc |-> "none", assetIds |-> <<>>, hasCb |-> FALSE, current |-> 0,
     succeeded |-> 0, failed |-> 0, attempted |-> <<>>, results |-> <<>>,
     cbCount |-> 0, cbSucceeded |-> 0, cbFailed |-> 0]

\* The thread downloadBatch starts and detaches.
BatchThread == "batch-1"

\* DownloaderConfig::maxConcurrent, which configure stores and nothing reads.
maxConcurrent == 2

(***************************************************************************)
(* The threads of the engine: data                                         *)
(***************************************************************************)

ThreadIds == {"thread-1", "thread-2"}

\* A thread that is in no operation of the engine. async and hasCb tell a
\* worker of activateAsync/validateAsync and whether it was given a callback;
\* cbCount and cbStatus are the history of that callback.
IdleThread ==
    [pc |-> "idle", op |-> "none", async |-> FALSE, hasCb |-> FALSE,
     code |-> "", machineId |-> "", reply |-> NoReply, snap |-> EmptyInfo,
     status |-> "None", cbCount |-> 0, cbStatus |-> "None"]

(***************************************************************************)
(* The state machine                                                       *)
(***************************************************************************)

\* Impl(): a default-constructed engine, before configure; a fresh install.
Init ==
    /\ configured = FALSE
    /\ activated = FALSE
    /\ activationInfo = EmptyInfo
    /\ statePath = ""
    /\ disk = [p \in Paths |-> NoFile]
    /\ machine \in MachineInfos
    /\ lastOp = "Impl"
    /\ lastStatus = "None"
    /\ lastRequest = NoRequest
    /\ lastReturn = NoReturn
    /\ prev = NoPrev
    /\ lastReply = NoReply
    /\ memo = NoMemo
    /\ fingerprints = NoFingerprints
    /\ dlConfigured = FALSE
    /\ skipExisting = TRUE
    /\ activeDownloads = {}
    /\ cancelledDownloads = {}
    /\ downloadedAssets = [a \in AssetIds |-> ""]
    /\ targetFiles = [f \in FileNames |-> NoDownloadFile]
    /\ tempFiles = [f \in FileNames |-> NoDownloadFile]
    /\ dlCalls = [t \in DlCalls |-> IdleCall]
    /\ dlLast = NoDlLast
    /\ cancelRequested = FALSE
    /\ obtained = {}
    /\ batch = NoBatch
    /\ threads = [t \in ThreadIds |-> IdleThread]
    /\ mutex = "free"
    /\ alive = TRUE
    /\ validateOnStartup = TRUE

\* Activation::create(config): a new engine, in a new process on a machine
\* that may differ from the one that wrote the disk.
Create(configPath, m) ==
    \E c \in {configure(configPath, disk)} :
        /\ configured' = c.configured
        /\ statePath' = c.statePath
        /\ activated' = c.activated
        /\ activationInfo' = c.activationInfo
        /\ machine' = m
        /\ prev' = [op |-> lastOp, status |-> lastStatus, machine |-> machine]
        /\ lastOp' = "create"
        /\ lastStatus' = "None"
        /\ lastRequest' = NoRequest
        /\ lastReply' = NoReply
        /\ lastReturn' = NoReturn
        /\ UNCHANGED disk

Activate(code, reply, now) ==
    \E r \in {activate(configured, statePath, activated, activationInfo, disk,
                      code, generate(machine), reply, now)} :
        /\ activated' = r.activated
        /\ activationInfo' = r.activationInfo
        /\ disk' = r.disk
        /\ lastOp' = "activate"
        /\ lastStatus' = r.status
        /\ lastRequest' = r.request
        /\ lastReply' = IF r.request.sent THEN reply ELSE NoReply
        /\ lastReturn' = NoReturn
        /\ prev' = NoPrev
        /\ UNCHANGED <<configured, statePath, machine>>

Deactivate(reply) ==
    \E r \in {deactivate(configured, statePath, activated, activationInfo, disk, reply)} :
        /\ activated' = r.activated
        /\ activationInfo' = r.activationInfo
        /\ disk' = r.disk
        /\ lastOp' = "deactivate"
        /\ lastStatus' = r.status
        /\ lastRequest' = r.request
        /\ lastReply' = IF r.request.sent THEN reply ELSE NoReply
        /\ lastReturn' = NoReturn
        /\ prev' = NoPrev
        /\ UNCHANGED <<configured, statePath, machine>>

Validate(reply) ==
    \E r \in {validate(configured, activated, activationInfo, reply)} :
        /\ activated' = r.activated
        /\ activationInfo' = r.activationInfo
        /\ lastOp' = "validate"
        /\ lastStatus' = r.status
        /\ lastRequest' = r.request
        /\ lastReply' = IF r.request.sent THEN reply ELSE NoReply
        /\ lastReturn' = NoReturn
        /\ prev' = NoPrev
        /\ UNCHANGED <<configured, statePath, machine, disk>>

\* Activation::loadState()
LoadState ==
    \E l \in {loadState(statePath, disk, activated, activationInfo)} :
        /\ activated' = l.activated
        /\ activationInfo' = l.activationInfo
        /\ lastOp' = "loadState"
        /\ lastStatus' = "None"
        /\ lastRequest' = NoRequest
        /\ lastReply' = NoReply
        /\ lastReturn' = NoReturn
        /\ prev' = NoPrev
        /\ UNCHANGED <<configured, statePath, machine, disk>>

\* Activation::saveState()
SaveState ==
    /\ disk' = saveState(statePath, disk, activationInfo)
    /\ lastOp' = "saveState"
    /\ lastStatus' = "None"
    /\ lastRequest' = NoRequest
    /\ lastReply' = NoReply
    /\ lastReturn' = NoReturn
    /\ prev' = NoPrev
    /\ UNCHANGED <<configured, statePath, machine, activated, activationInfo>>

\* Activation::clearState()
ClearState ==
    /\ disk' = clearState(statePath, disk)
    /\ lastOp' = "clearState"
    /\ lastStatus' = "None"
    /\ lastRequest' = NoRequest
    /\ lastReply' = NoReply
    /\ lastReturn' = NoReturn
    /\ prev' = NoPrev
    /\ UNCHANGED <<configured, statePath, machine, activated, activationInfo>>

\* Activation::isActivated()
IsActivated ==
    /\ lastOp' = "isActivated"
    /\ lastStatus' = "None"
    /\ lastRequest' = NoRequest
    /\ lastReply' = NoReply
    /\ lastReturn' = [NoReturn EXCEPT !.flag = isActivated]
    /\ prev' = NoPrev
    /\ UNCHANGED <<configured, statePath, machine, activated, activationInfo, disk>>

\* Activation::getActivationInfo()
GetActivationInfo ==
    /\ lastOp' = "getActivationInfo"
    /\ lastStatus' = "None"
    /\ lastRequest' = NoRequest
    /\ lastReply' = NoReply
    /\ lastReturn' = [NoReturn EXCEPT !.present = getActivationInfo.present,
                                      !.info = getActivationInfo.info]
    /\ prev' = NoPrev
    /\ UNCHANGED <<configured, statePath, machine, activated, activationInfo, disk>>

\* Environment: an existing state file is damaged (truncated, overwritten).
CorruptStateFile(p) ==
    /\ disk[p].exists
    /\ disk' = [disk EXCEPT ![p] = CorruptFile]
    /\ lastOp' = "corrupt"
    /\ lastStatus' = "None"
    /\ lastRequest' = NoRequest
    /\ lastReply' = NoReply
    /\ lastReturn' = NoReturn
    /\ prev' = NoPrev
    /\ UNCHANGED <<configured, statePath, machine, activated, activationInfo>>

\* What Spec leaves alone: the state of the other specifications.
others == <<memo, fingerprints, dlVars, threadVars>>

Next ==
    \/ \E cp \in ConfigPaths, m \in MachineInfos :
           Create(cp, m) /\ UNCHANGED others
    \/ \E c \in Codes, r \in ActivateReplies, now \in LocalTimestamps :
           Activate(c, r, now) /\ UNCHANGED others
    \/ \E r \in DeactivateReplies : Deactivate(r) /\ UNCHANGED others
    \/ \E r \in ValidateReplies : Validate(r) /\ UNCHANGED others
    \/ LoadState /\ UNCHANGED others
    \/ SaveState /\ UNCHANGED others
    \/ ClearState /\ UNCHANGED others
    \/ IsActivated /\ UNCHANGED others
    \/ GetActivationInfo /\ UNCHANGED others
    \/ \E p \in Paths : CorruptStateFile(p) /\ UNCHANGED others

Spec == Init /\ [][Next]_vars

(***************************************************************************)
(* The same engine, remembering what its accessors returned                *)
(***************************************************************************)

Min(a, b) == IF a < b THEN a ELSE b

\* What the accessor runs leave alone.
beyondAccessors == <<fingerprints, dlVars, threadVars>>

\* One reply of each kind.
FewActivateReplies ==
    FailureReplies
    \cup {r \in ErrorReplies : r.error = TxtRevoked}
    \cup {r \in ActivateSuccessReplies :
            r.has_activated_at /\ r.activations = MaxCount
            /\ ~r.has_current_activations /\ r.has_max_activations}

FewDeactivateReplies ==
    {r \in DeactivateReplies : r.kind \in {"noStream", "object"} /\ ~r.hasError}

FewValidateReplies ==
    {r \in ValidateReplies :
        r.kind \in {"noStream", "object"} /\ r.error \in {<<>>, TxtRevoked}}

\* isActivated() and what the caller remembers of it.
IsActivatedMemo ==
    /\ IsActivated
    /\ memo' = [memo EXCEPT !.flagCalls = Min(@ + 1, MaxCalls),
                            !.flag = lastReturn'.flag]

\* getActivationInfo() and what the caller remembers of it.
GetActivationInfoMemo ==
    /\ GetActivationInfo
    /\ memo' = [memo EXCEPT !.infoCalls = Min(@ + 1, MaxCalls),
                            !.present = lastReturn'.present,
                            !.info = lastReturn'.info]

NextAccessors ==
    \/ \E cp \in ConfigPaths, m \in MachineInfos : Create(cp, m) /\ memo' = NoMemo /\ UNCHANGED beyondAccessors
    \/ \E c \in Codes, r \in FewActivateReplies, now \in LocalTimestamps :
           Activate(c, r, now) /\ memo' = NoMemo /\ UNCHANGED beyondAccessors
    \/ \E r \in FewDeactivateReplies : Deactivate(r) /\ memo' = NoMemo /\ UNCHANGED beyondAccessors
    \/ \E r \in FewValidateReplies : Validate(r) /\ memo' = NoMemo /\ UNCHANGED beyondAccessors
    \/ LoadState /\ memo' = NoMemo /\ UNCHANGED beyondAccessors
    \/ SaveState /\ UNCHANGED <<memo, beyondAccessors>>
    \/ ClearState /\ UNCHANGED <<memo, beyondAccessors>>
    \/ \E p \in Paths : CorruptStateFile(p) /\ UNCHANGED <<memo, beyondAccessors>>
    \/ IsActivatedMemo /\ UNCHANGED beyondAccessors
    \/ GetActivationInfoMemo /\ UNCHANGED beyondAccessors

SpecAccessors == Init /\ [][NextAccessors]_vars

(***************************************************************************)
(* The asset downloader: operations                                        *)
(***************************************************************************)

\* download: the file name is the name of the asset's info, or the asset id
\* when getAssetInfo gives nothing.
resolveFileName(info, assetId) == IF info = "" THEN assetId ELSE info

\* streamStatus that hands the HTTP status through.
streamStatus_Raw(stream) == stream

\* downloadFromUrlInternal: the status when createInputStream gives no stream.
streamStatus(stream) ==
    IF stream \in {"401", "403"} THEN "Unauthorized"
    ELSE IF stream = "404" THEN "NotFound"
    ELSE "NetworkError"

\* The network requests a call has issued when it is past downloadFromUrlInternal's
\* createInputStream: download asked for the info and for the URL before it.
requestsOf(op) ==
    IF op = "download" THEN {"info", "download-url", "content"} ELSE {"content"}

\* What a call returns, with the requests it issued and what ended it.
Result(op, t, assetId, status, path, requests, cause) ==
    [op |-> op, call |-> t, assetId |-> assetId, status |-> status, path |-> path,
     requests |-> requests, cause |-> cause, matches |-> TRUE]

\* History: the assets a download has returned Success or AlreadyExists for.
Obtain(op, assetId, status) ==
    IF op = "download" /\ status \in {"Success", "AlreadyExists"}
    THEN obtained \cup {assetId}
    ELSE obtained

\* A call returns without having registered or opened anything.
ReturnAtOnce(t, op, assetId, status, cause) ==
    /\ dlLast' = Result(op, t, assetId, status, "", {}, cause)
    /\ obtained' = Obtain(op, assetId, status)
    /\ UNCHANGED <<activeDownloads, cancelledDownloads, downloadedAssets,
                   targetFiles, tempFiles, dlCalls>>

\* A call that got past its registration returns: download erases the asset
\* from the active set and records the path of a Success.
Return(t, status, path, requests, cause, matches) ==
    LET c == dlCalls[t]
    IN  /\ dlLast' = [Result(c.op, t, c.assetId, status, path, requests, cause)
                          EXCEPT !.matches = matches]
        /\ obtained' = Obtain(c.op, c.assetId, status)
        /\ dlCalls' = [dlCalls EXCEPT ![t] = IdleCall]
        /\ activeDownloads' =
               IF c.op = "download" THEN activeDownloads \ {c.assetId}
               ELSE activeDownloads
        /\ downloadedAssets' =
               IF c.op = "download" /\ status = "Success"
               THEN [downloadedAssets EXCEPT ![c.assetId] = path]
               ELSE downloadedAssets

\* downloadFromUrlInternal up to its loop: the stream is opened and the temp
\* file is created; an output stream on a file that exists appends to it.
OpenStreams(t, op, assetId, fileName, stream, out) ==
    LET c == [pc |-> "streaming", op |-> op, assetId |-> assetId,
              fileName |-> fileName, read |-> 0]
    IN  IF stream # "ok" \/ ~out
        THEN /\ dlLast' = Result(op, t, assetId,
                                 IF stream # "ok" THEN streamStatus(stream)
                                 ELSE "DiskError",
                                 "", requestsOf(op),
                                 IF stream # "ok" THEN stream ELSE "create")
             /\ dlCalls' = [dlCalls EXCEPT ![t] = IdleCall]
             /\ activeDownloads' = IF op = "download" THEN activeDownloads \ {assetId}
                                   ELSE activeDownloads
             /\ UNCHANGED <<cancelledDownloads, downloadedAssets, targetFiles,
                            tempFiles, obtained>>
        ELSE /\ dlCalls' = [dlCalls EXCEPT ![t] = c]
             /\ tempFiles' = [tempFiles EXCEPT ![fileName].exists = TRUE]
             /\ UNCHANGED <<dlLast, activeDownloads, cancelledDownloads,
                            downloadedAssets, targetFiles, obtained>>

\* AssetDownloader::configure
DownloaderConfigure(skip) ==
    /\ dlConfigured' = TRUE
    /\ skipExisting' = skip
    /\ UNCHANGED <<activeDownloads, cancelledDownloads, downloadedAssets,
                   targetFiles, tempFiles, dlCalls, dlLast, cancelRequested, obtained>>

\* DownloadBegin that registers the asset without looking whether it is
\* active.
DownloadBegin_NoSingleFlight(t, assetId) ==
    /\ dlCalls[t].pc = "idle"
    /\ IF ~dlConfigured
       THEN ReturnAtOnce(t, "download", assetId, "NetworkError", "unconfigured")
       ELSE /\ activeDownloads' = activeDownloads \cup {assetId}
            /\ dlCalls' = [dlCalls EXCEPT ![t] =
                   [pc |-> "registered", op |-> "download", assetId |-> assetId,
                    fileName |-> "", read |-> 0]]
            /\ UNCHANGED <<cancelledDownloads, downloadedAssets, targetFiles,
                           tempFiles, dlLast, obtained>>
    /\ UNCHANGED <<dlConfigured, skipExisting, cancelRequested>>

\* download(assetId), first part: the configured check and the registration
\* in the active set.
DownloadBegin(t, assetId) ==
    /\ dlCalls[t].pc = "idle"
    /\ IF ~dlConfigured
       THEN ReturnAtOnce(t, "download", assetId, "NetworkError", "unconfigured")
       ELSE IF assetId \in activeDownloads
       THEN ReturnAtOnce(t, "download", assetId, "Success", "active")
       ELSE /\ activeDownloads' = activeDownloads \cup {assetId}
            /\ dlCalls' = [dlCalls EXCEPT ![t] =
                   [pc |-> "registered", op |-> "download", assetId |-> assetId,
                    fileName |-> "", read |-> 0]]
            /\ UNCHANGED <<cancelledDownloads, downloadedAssets, targetFiles,
                           tempFiles, dlLast, obtained>>
    /\ UNCHANGED <<dlConfigured, skipExisting, cancelRequested>>

\* download(assetId), second part: getAssetInfo, the skipExisting check,
\* getDownloadUrl and the opening of the streams.
DownloadResolve(t, info, hasUrl, stream, out) ==
    /\ dlCalls[t].pc = "registered"
    /\ LET assetId == dlCalls[t].assetId
           fileName == resolveFileName(info, assetId)
       IN  IF skipExisting /\ targetFiles[fileName].exists
           THEN /\ dlLast' = Result("download", t, assetId, "AlreadyExists",
                                    fileName, {"info"}, "exists")
                /\ obtained' = Obtain("download", assetId, "AlreadyExists")
                /\ dlCalls' = [dlCalls EXCEPT ![t] = IdleCall]
                /\ activeDownloads' = activeDownloads \ {assetId}
                /\ downloadedAssets' = [downloadedAssets EXCEPT ![assetId] = fileName]
                /\ UNCHANGED <<cancelledDownloads, targetFiles, tempFiles>>
           ELSE IF ~hasUrl
           THEN /\ Return(t, "NotFound", "", {"info", "download-url"}, "no-url", TRUE)
                /\ UNCHANGED <<cancelledDownloads, targetFiles, tempFiles>>
           ELSE OpenStreams(t, "download", assetId, fileName, stream, out)
    /\ UNCHANGED <<dlConfigured, skipExisting, cancelRequested>>

\* downloadFromUrl(url, fileName): downloadFromUrlInternal with no asset id.
DownloadFromUrl(t, fileName, stream, out) ==
    /\ dlCalls[t].pc = "idle"
    /\ OpenStreams(t, "downloadFromUrl", "", fileName, stream, out)
    /\ UNCHANGED <<dlConfigured, skipExisting, cancelRequested>>

\* DownloadCheck that looks for no cancellation.
DownloadCheck_Unchecked(t) ==
    /\ dlCalls[t].pc = "streaming"
    /\ dlCalls' = [dlCalls EXCEPT ![t].pc = "reading"]
    /\ UNCHANGED <<dlLast, activeDownloads, cancelledDownloads, downloadedAssets,
                   targetFiles, tempFiles, obtained>>
    /\ UNCHANGED <<dlConfigured, skipExisting, cancelRequested>>

\* The head of a turn of the loop of downloadFromUrlInternal: the stream is
\* not exhausted, and under the mutex the cancellation of the asset is looked
\* for.
DownloadCheck(t) ==
    /\ dlCalls[t].pc = "streaming"
    /\ LET c == dlCalls[t]
       IN  IF c.assetId # "" /\ c.assetId \in cancelledDownloads
           THEN /\ cancelledDownloads' = cancelledDownloads \ {c.assetId}
                /\ tempFiles' = [tempFiles EXCEPT ![c.fileName] = NoDownloadFile]
                /\ Return(t, "Cancelled", "", requestsOf(c.op), "cancel", TRUE)
                /\ UNCHANGED targetFiles
           ELSE /\ dlCalls' = [dlCalls EXCEPT ![t].pc = "reading"]
                /\ UNCHANGED <<dlLast, activeDownloads, cancelledDownloads,
                               downloadedAssets, targetFiles, tempFiles, obtained>>
    /\ UNCHANGED <<dlConfigured, skipExisting, cancelRequested>>

\* DownloadChunk that leaves the temp file behind when the write fails.
DownloadChunk_KeepTemp(t, data, written) ==
    /\ dlCalls[t].pc = "reading"
    /\ LET c == dlCalls[t]
       IN  IF ~data
           THEN /\ dlCalls' = [dlCalls EXCEPT ![t].pc = "moving"]
                /\ UNCHANGED <<dlLast, activeDownloads, cancelledDownloads,
                               downloadedAssets, targetFiles, tempFiles, obtained>>
           ELSE IF ~written
           THEN /\ Return(t, "DiskError", "", requestsOf(c.op), "write", TRUE)
                /\ UNCHANGED <<cancelledDownloads, targetFiles, tempFiles>>
           ELSE /\ tempFiles' =
                       IF tempFiles[c.fileName].exists
                       THEN [tempFiles EXCEPT ![c.fileName].chunks = Min(@ + 1, Chunks + 1)]
                       ELSE tempFiles
                /\ dlCalls' = [dlCalls EXCEPT
                       ![t].read = c.read + 1,
                       ![t].pc = IF c.read + 1 = Chunks THEN "moving" ELSE "streaming"]
                /\ UNCHANGED <<dlLast, activeDownloads, cancelledDownloads,
                               downloadedAssets, targetFiles, obtained>>
    /\ UNCHANGED <<dlConfigured, skipExisting, cancelRequested>>

\* The rest of a turn of the loop of downloadFromUrlInternal: the read and the
\* write of one buffer. A read of nothing leaves the loop as an exhausted
\* stream does.
DownloadChunk(t, data, written) ==
    /\ dlCalls[t].pc = "reading"
    /\ LET c == dlCalls[t]
           deleted == [tempFiles EXCEPT ![c.fileName] = NoDownloadFile]
       IN  IF ~data
           THEN /\ dlCalls' = [dlCalls EXCEPT ![t].pc = "moving"]
                /\ UNCHANGED <<dlLast, activeDownloads, cancelledDownloads,
                               downloadedAssets, targetFiles, tempFiles, obtained>>
           ELSE IF ~written
           THEN /\ tempFiles' = deleted
                /\ Return(t, "DiskError", "", requestsOf(c.op), "write", TRUE)
                /\ UNCHANGED <<cancelledDownloads, targetFiles>>
           ELSE /\ tempFiles' =
                       IF tempFiles[c.fileName].exists
                       THEN [tempFiles EXCEPT ![c.fileName].chunks = Min(@ + 1, Chunks + 1)]
                       ELSE tempFiles
                /\ dlCalls' = [dlCalls EXCEPT
                       ![t].read = c.read + 1,
                       ![t].pc = IF c.read + 1 = Chunks THEN "moving" ELSE "streaming"]
                /\ UNCHANGED <<dlLast, activeDownloads, cancelledDownloads,
                               downloadedAssets, targetFiles, obtained>>
    /\ UNCHANGED <<dlConfigured, skipExisting, cancelRequested>>

\* DownloadMove that copies the temp file to the target and leaves it.
DownloadMove_Copy(t, moved, intact) ==
    /\ dlCalls[t].pc = "moving"
    /\ LET c == dlCalls[t]
       IN  IF moved /\ tempFiles[c.fileName].exists
           THEN /\ targetFiles' = [targetFiles EXCEPT ![c.fileName] = tempFiles[c.fileName]]
                /\ UNCHANGED tempFiles
                /\ Return(t, "Success", c.fileName, requestsOf(c.op), "done",
                          intact /\ tempFiles[c.fileName].chunks = Chunks)
           ELSE /\ tempFiles' = [tempFiles EXCEPT ![c.fileName] = NoDownloadFile]
                /\ Return(t, "DiskError", "", requestsOf(c.op), "move", TRUE)
                /\ UNCHANGED targetFiles
    /\ UNCHANGED <<cancelledDownloads, dlConfigured, skipExisting, cancelRequested>>

\* The end of downloadFromUrlInternal: the temp file is moved to the target.
\* intact tells whether the bytes received are those the asset's checksum was
\* taken of; no line of the function reads it.
DownloadMove(t, moved, intact) ==
    /\ dlCalls[t].pc = "moving"
    /\ LET c == dlCalls[t]
       IN  IF moved /\ tempFiles[c.fileName].exists
           THEN /\ targetFiles' = [targetFiles EXCEPT ![c.fileName] = tempFiles[c.fileName]]
                /\ tempFiles' = [tempFiles EXCEPT ![c.fileName] = NoDownloadFile]
                /\ Return(t, "Success", c.fileName, requestsOf(c.op), "done",
                          intact /\ tempFiles[c.fileName].chunks = Chunks)
           ELSE /\ tempFiles' = [tempFiles EXCEPT ![c.fileName] = NoDownloadFile]
                /\ Return(t, "DiskError", "", requestsOf(c.op), "move", TRUE)
                /\ UNCHANGED targetFiles
    /\ UNCHANGED <<cancelledDownloads, dlConfigured, skipExisting, cancelRequested>>

\* AssetDownloader::cancel
Cancel(assetId) ==
    /\ cancelledDownloads' = cancelledDownloads \cup {assetId}
    /\ UNCHANGED <<dlConfigured, skipExisting, activeDownloads, downloadedAssets,
                   targetFiles, tempFiles, dlCalls, dlLast, cancelRequested, obtained>>

\* AssetDownloader::cancelAll: the flag is set and never reset.
CancelAll ==
    /\ cancelRequested' = TRUE
    /\ cancelledDownloads' = cancelledDownloads \cup activeDownloads
    /\ UNCHANGED <<dlConfigured, skipExisting, activeDownloads, downloadedAssets,
                   targetFiles, tempFiles, dlCalls, dlLast, obtained>>

\* AssetDownloader::isDownloading
isDownloading == activeDownloads # {}

\* AssetDownloader::isDownloaded
isDownloaded(assetId) ==
    /\ downloadedAssets[assetId] # ""
    /\ targetFiles[downloadedAssets[assetId]].exists

\* AssetDownloader::getLocalPath
getLocalPath(assetId) == downloadedAssets[assetId]

\* deleteDownload that deletes the file and keeps the entry of the asset.
DeleteDownload_KeepEntry(assetId, deleted) ==
    /\ IF downloadedAssets[assetId] # "" /\ deleted
       THEN /\ targetFiles' = [targetFiles EXCEPT ![downloadedAssets[assetId]] = NoDownloadFile]
            /\ UNCHANGED downloadedAssets
            /\ obtained' = obtained \ {assetId}
            /\ dlLast' = Result("deleteDownload", "", assetId, "true", "", {}, "")
       ELSE /\ dlLast' = Result("deleteDownload", "", assetId, "false", "", {}, "")
            /\ UNCHANGED <<targetFiles, downloadedAssets, obtained>>
    /\ UNCHANGED <<dlConfigured, skipExisting, activeDownloads, cancelledDownloads,
                   tempFiles, dlCalls, cancelRequested>>

\* AssetDownloader::deleteDownload: deleted is what File::deleteFile answers.
DeleteDownload(assetId, deleted) ==
    /\ IF downloadedAssets[assetId] # "" /\ deleted
       THEN /\ targetFiles' = [targetFiles EXCEPT ![downloadedAssets[assetId]] = NoDownloadFile]
            /\ downloadedAssets' = [downloadedAssets EXCEPT ![assetId] = ""]
            /\ obtained' = obtained \ {assetId}
            /\ dlLast' = Result("deleteDownload", "", assetId, "true", "", {}, "")
       ELSE /\ dlLast' = Result("deleteDownload", "", assetId, "false", "", {}, "")
            /\ UNCHANGED <<targetFiles, downloadedAssets, obtained>>
    /\ UNCHANGED <<dlConfigured, skipExisting, activeDownloads, cancelledDownloads,
                   tempFiles, dlCalls, cancelRequested>>

\* What the downloader leaves alone.
beyondDownloads == <<engineVars, memo, fingerprints, threadVars>>

\* The steps of the downloader when the threads of callers call it for the
\* assets of assets.
Downloads(callers, assets) ==
    \/ \E skip \in BOOLEAN :
           DownloaderConfigure(skip) /\ UNCHANGED <<batch, beyondDownloads>>
    \/ \E t \in callers, a \in assets :
           DownloadBegin(t, a) /\ UNCHANGED <<batch, beyondDownloads>>
    \/ \E t \in callers, info \in InfoNames \cup {""}, hasUrl \in BOOLEAN,
          stream \in StreamOutcomes, out \in BOOLEAN :
           DownloadResolve(t, info, hasUrl, stream, out)
           /\ UNCHANGED <<batch, beyondDownloads>>
    \/ \E t \in callers, f \in InfoNames, stream \in StreamOutcomes, out \in BOOLEAN :
           DownloadFromUrl(t, f, stream, out) /\ UNCHANGED <<batch, beyondDownloads>>
    \/ \E t \in callers : DownloadCheck(t) /\ UNCHANGED <<batch, beyondDownloads>>
    \/ \E t \in callers, data \in BOOLEAN, written \in BOOLEAN :
           DownloadChunk(t, data, written) /\ UNCHANGED <<batch, beyondDownloads>>
    \/ \E t \in callers, moved \in BOOLEAN, intact \in BOOLEAN :
           DownloadMove(t, moved, intact) /\ UNCHANGED <<batch, beyondDownloads>>
    \/ \E a \in assets : Cancel(a) /\ UNCHANGED <<batch, beyondDownloads>>

(***************************************************************************)
(* The engine under threads: every operation is cut at its lock_guard      *)
(* blocks, its network request and its file accesses.                      *)
(***************************************************************************)

\* The operations a thread can call on the engine, and those with an Async
\* variant.
ThreadOps ==
    {"activate", "deactivate", "validate", "isActivated", "getActivationInfo",
     "loadState", "saveState", "clearState"}

AsyncOps == {"activate", "validate"}

\* Where an operation starts.
FirstPc(op) ==
    CASE op = "activate" -> "activate:start"
      [] op = "deactivate" -> "deactivate:start"
      [] op = "validate" -> "validate:start"
      [] op = "isActivated" -> "isActivated:lock"
      [] op = "getActivationInfo" -> "getActivationInfo:lock"
      [] op = "loadState" -> "loadState:start"
      [] op = "saveState" -> "saveState:lock"
      [] op = "clearState" -> "clearState:delete"

\* The lock_guard blocks: where a thread waits for the mutex, and the block
\* it enters with it.
AfterLock(pc) ==
    CASE pc = "activate:lock" -> "activate:update"
      [] pc = "saveState:lock" -> "saveState:read"
      [] pc = "deactivate:lock" -> "deactivate:check"
      [] pc = "deactivate:lock2" -> "deactivate:clear"
      [] pc = "validate:lock" -> "validate:check"
      [] pc = "validate:lock2" -> "validate:setValid"
      [] pc = "isActivated:lock" -> "isActivated:read"
      [] pc = "getActivationInfo:lock" -> "getActivationInfo:read"

LockPcs ==
    {"activate:lock", "saveState:lock", "deactivate:lock", "deactivate:lock2",
     "validate:lock", "validate:lock2", "isActivated:lock", "getActivationInfo:lock"}

\* The positions at which a thread reads or writes activated or
\* activationInfo.
AccessPcs ==
    {"activate:update", "saveState:read", "deactivate:check", "deactivate:clear",
     "validate:check", "validate:setValid", "isActivated:read",
     "getActivationInfo:read", "loadState:writeActivated", "loadState:writeIsValid"}

\* The positions of a thread that is in no operation.
RestPcs == {"idle", "done", "crashed"}

\* The thread after its operation returned status: a caller is in no
\* operation again; a worker goes on to the callback if it was given one,
\* and ends.
returned(th, status) ==
    IF th.async
    THEN [th EXCEPT !.pc = IF th.hasCb THEN "callback" ELSE "done",
                    !.status = status,
                    !.code = "", !.machineId = "", !.reply = NoReply,
                    !.snap = EmptyInfo]
    ELSE IdleThread

\* What the steps of a thread leave alone.
beyondThreads ==
    <<configured, statePath, machine, lastOp, lastStatus, lastRequest, lastReturn,
      prev, lastReply, memo, fingerprints, dlVars, alive, validateOnStartup>>

\* Activation::create(config) with the startup flag of the configuration:
\* configure reads neither the flag nor starts a thread.
CreateWithConfig(configPath, m, flag) ==
    /\ \A t \in ThreadIds : threads[t].pc \in RestPcs
    /\ Create(configPath, m)
    /\ validateOnStartup' = flag
    /\ threads' = [t \in ThreadIds |-> IdleThread]
    /\ mutex' = "free"
    /\ alive' = TRUE
    /\ UNCHANGED <<memo, fingerprints, dlVars>>

\* ~Activation(): the engine is freed; it joins no thread. No caller is
\* inside a synchronous call, workers may be running.
Destroy ==
    /\ alive
    /\ \A t \in ThreadIds : threads[t].pc \notin RestPcs => threads[t].async
    /\ alive' = FALSE
    /\ UNCHANGED <<engineVars, memo, fingerprints, dlVars, threads, mutex, validateOnStartup>>

\* A thread calls a synchronous operation.
Call(t, op, code) ==
    /\ alive
    /\ threads[t].pc = "idle"
    /\ threads' = [threads EXCEPT ![t] =
           [IdleThread EXCEPT !.pc = FirstPc(op), !.op = op, !.code = code]]
    /\ lastOp' = "call"
    /\ UNCHANGED <<engine, disk, machine, lastStatus, lastRequest, lastReturn, prev,
                   lastReply, memo, fingerprints, dlVars, mutex, alive, validateOnStartup>>

\* activateAsync(code, callback) and validateAsync(callback): a detached
\* thread is started that captures this; the caller returns.
CallAsync(t, op, code, hasCb) ==
    /\ alive
    /\ threads[t].pc \in {"idle", "done"}
    /\ threads' = [threads EXCEPT ![t] =
           [IdleThread EXCEPT !.pc = FirstPc(op), !.op = op, !.code = code,
                              !.async = TRUE, !.hasCb = hasCb]]
    /\ lastOp' = "call"
    /\ UNCHANGED <<engine, disk, machine, lastStatus, lastRequest, lastReturn, prev,
                   lastReply, memo, fingerprints, dlVars, mutex, alive, validateOnStartup>>

\* activate, deactivate, validate: the configured check; activate goes on to
\* send its request.
Begin(t) ==
    /\ threads[t].pc \in {"activate:start", "deactivate:start", "validate:start"}
    /\ threads' = [threads EXCEPT ![t] =
           IF ~configured THEN returned(@, "NotConfigured")
           ELSE IF @.op = "activate"
           THEN [@ EXCEPT !.pc = "activate:await", !.machineId = generate(machine)]
           ELSE [@ EXCEPT !.pc = IF threads[t].op = "deactivate" THEN "deactivate:lock"
                                 ELSE "validate:lock"]]
    /\ UNCHANGED <<engine, disk, mutex, beyondThreads>>

\* std::lock_guard<std::mutex> lock(mutex)
Lock(t) ==
    /\ threads[t].pc \in LockPcs
    /\ mutex = "free"
    /\ mutex' = t
    /\ threads' = [threads EXCEPT ![t].pc = AfterLock(@)]
    /\ UNCHANGED <<engine, disk, beyondThreads>>

\* deactivate, validate: the first block reads activated and copies the code
\* and the fingerprint; the request is sent after it.
Check(t) ==
    /\ threads[t].pc \in {"deactivate:check", "validate:check"}
    /\ threads' = [threads EXCEPT ![t] =
           IF ~activated THEN returned(@, "NotActivated")
           ELSE [@ EXCEPT !.pc = IF threads[t].op = "deactivate" THEN "deactivate:await"
                                 ELSE "validate:await",
                          !.code = activationInfo.activationCode,
                          !.machineId = activationInfo.machineId]]
    /\ mutex' = "free"
    /\ UNCHANGED <<engine, disk, beyondThreads>>

\* The reply to the request of activate arrives.
ActivateReply(t, reply, now) ==
    /\ threads[t].pc = "activate:await"
    /\ \E r \in {activate(TRUE, statePath, activated, activationInfo, disk,
                          threads[t].code, threads[t].machineId, reply, now)} :
           threads' = [threads EXCEPT ![t] =
               IF r.status = "Valid"
               THEN [@ EXCEPT !.pc = "activate:lock", !.reply = reply]
               ELSE returned(@, r.status)]
    /\ UNCHANGED <<engine, disk, mutex, beyondThreads>>

\* The reply to the request of deactivate arrives.
DeactivateReply(t, reply) ==
    /\ threads[t].pc = "deactivate:await"
    /\ \E r \in {deactivate(TRUE, statePath, TRUE, activationInfo, disk, reply)} :
           threads' = [threads EXCEPT ![t] =
               IF r.status = "Valid"
               THEN [@ EXCEPT !.pc = "deactivate:lock2"]
               ELSE returned(@, r.status)]
    /\ UNCHANGED <<engine, disk, mutex, beyondThreads>>

\* The reply to the request of validate arrives; Valid, Invalid and Revoked
\* are written to isValid under the mutex.
ValidateReply(t, reply) ==
    /\ threads[t].pc = "validate:await"
    /\ \E r \in {validate(TRUE, TRUE, activationInfo, reply)} :
           threads' = [threads EXCEPT ![t] =
               IF r.status \in {"Valid", "Invalid", "Revoked"}
               THEN [@ EXCEPT !.pc = "validate:lock2", !.status = r.status]
               ELSE returned(@, r.status)]
    /\ UNCHANGED <<engine, disk, mutex, beyondThreads>>

\* activate: the block that writes the record and sets activated.
Update(t, now) ==
    /\ threads[t].pc = "activate:update"
    /\ activationInfo' = activateInfo(activationInfo, threads[t].code,
                                      threads[t].machineId, threads[t].reply, now)
    /\ activated' = TRUE
    /\ mutex' = "free"
    /\ threads' = [threads EXCEPT ![t].pc = "saveState:lock"]
    /\ UNCHANGED <<disk, beyondThreads>>

\* saveState: the block that copies the record.
SaveRead(t) ==
    /\ threads[t].pc = "saveState:read"
    /\ threads' = [threads EXCEPT ![t].pc = "saveState:write",
                                  ![t].snap = activationInfo]
    /\ mutex' = "free"
    /\ UNCHANGED <<engine, disk, beyondThreads>>

\* saveState: the file is written outside the block.
SaveWrite(t) ==
    /\ threads[t].pc = "saveState:write"
    /\ disk' = saveState(statePath, disk, threads[t].snap)
    /\ threads' = [threads EXCEPT ![t] =
           returned(@, IF @.op = "activate" THEN "Valid" ELSE "None")]
    /\ UNCHANGED <<engine, mutex, beyondThreads>>

\* deactivate: the block that clears the record.
Clear(t) ==
    /\ threads[t].pc = "deactivate:clear"
    /\ activated' = FALSE
    /\ activationInfo' = EmptyInfo
    /\ mutex' = "free"
    /\ threads' = [threads EXCEPT ![t].pc = "clearState:delete"]
    /\ UNCHANGED <<disk, beyondThreads>>

\* clearState: the file is deleted.
ClearDelete(t) ==
    /\ threads[t].pc = "clearState:delete"
    /\ disk' = clearState(statePath, disk)
    /\ threads' = [threads EXCEPT ![t] =
           returned(@, IF @.op = "deactivate" THEN "Valid" ELSE "None")]
    /\ UNCHANGED <<engine, mutex, beyondThreads>>

\* validate: the block that writes isValid.
SetValid(t) ==
    /\ threads[t].pc = "validate:setValid"
    /\ activationInfo' = [activationInfo EXCEPT !.isValid = (threads[t].status = "Valid")]
    /\ mutex' = "free"
    /\ threads' = [threads EXCEPT ![t] = returned(@, @.status)]
    /\ UNCHANGED <<activated, disk, beyondThreads>>

\* isActivated, getActivationInfo: the block that reads.
Read(t) ==
    /\ threads[t].pc \in {"isActivated:read", "getActivationInfo:read"}
    /\ mutex' = "free"
    /\ threads' = [threads EXCEPT ![t] = returned(@, "None")]
    /\ UNCHANGED <<engine, disk, beyondThreads>>

\* loadState: the path and the existence of the file.
LoadCheck(t) ==
    /\ threads[t].pc = "loadState:start"
    /\ threads' = [threads EXCEPT ![t] =
           IF statePath = "" \/ ~disk[statePath].exists
           THEN returned(@, "None")
           ELSE [@ EXCEPT !.pc = "loadState:writeActivated"]]
    /\ UNCHANGED <<engine, disk, mutex, beyondThreads>>

\* loadState: activated = true, with no lock_guard.
LoadWriteActivated(t) ==
    /\ threads[t].pc = "loadState:writeActivated"
    /\ activated' = TRUE
    /\ threads' = [threads EXCEPT ![t].pc = "loadState:writeIsValid"]
    /\ UNCHANGED <<activationInfo, disk, mutex, beyondThreads>>

\* loadState: activationInfo.isValid = true, with no lock_guard.
LoadWriteIsValid(t) ==
    /\ threads[t].pc = "loadState:writeIsValid"
    /\ activationInfo' = [activationInfo EXCEPT !.isValid = TRUE]
    /\ threads' = [threads EXCEPT ![t] = returned(@, "None")]
    /\ UNCHANGED <<activated, disk, mutex, beyondThreads>>

\* The worker calls the callback with the status.
Callback(t) ==
    /\ threads[t].pc = "callback"
    /\ threads' = [threads EXCEPT ![t].pc = "done",
                                  ![t].cbCount = @ + 1,
                                  ![t].cbStatus = threads[t].status]
    /\ UNCHANGED <<engine, disk, mutex, beyondThreads>>

\* A worker that uses the engine after it was freed: the behaviour is
\* undefined; the worker may go on as if the engine were there (its other
\* steps) or the process may fault, and then no callback is called.
UseAfterFree(t) ==
    /\ ~alive
    /\ threads[t].pc \notin RestPcs \cup {"callback"}
    /\ threads' = [threads EXCEPT ![t].pc = "crashed"]
    /\ UNCHANGED <<engine, disk, mutex, beyondThreads>>

\* The code the threads activate with.
ThreadCodes == {"CODE-A"}

\* The steps of the engine when the threads of callers call its synchronous
\* operations and those of workers are the detached threads of its Async
\* operations. The engine is constructed on the machine of the process.
Threads(callers, workers) ==
    \/ \E cp \in ConfigPaths, flag \in BOOLEAN : CreateWithConfig(cp, machine, flag)
    \/ Destroy
    \/ \E t \in callers, op \in ThreadOps, c \in ThreadCodes :
           Call(t, op, IF op = "activate" THEN c ELSE "")
    \/ \E t \in workers, op \in AsyncOps, c \in ThreadCodes, hasCb \in BOOLEAN :
           CallAsync(t, op, IF op = "activate" THEN c ELSE "", hasCb)
    \/ \E t \in ThreadIds : Begin(t)
    \/ \E t \in ThreadIds : Lock(t)
    \/ \E t \in ThreadIds : Check(t)
    \/ \E t \in ThreadIds, r \in FewActivateReplies, now \in LocalTimestamps :
           ActivateReply(t, r, now)
    \/ \E t \in ThreadIds, r \in FewDeactivateReplies : DeactivateReply(t, r)
    \/ \E t \in ThreadIds, r \in FewValidateReplies : ValidateReply(t, r)
    \/ \E t \in ThreadIds, now \in LocalTimestamps : Update(t, now)
    \/ \E t \in ThreadIds : SaveRead(t)
    \/ \E t \in ThreadIds : SaveWrite(t)
    \/ \E t \in ThreadIds : Clear(t)
    \/ \E t \in ThreadIds : ClearDelete(t)
    \/ \E t \in ThreadIds : SetValid(t)
    \/ \E t \in ThreadIds : Read(t)
    \/ \E t \in ThreadIds : LoadCheck(t)
    \/ \E t \in ThreadIds : LoadWriteActivated(t)
    \/ \E t \in ThreadIds : LoadWriteIsValid(t)
    \/ \E t \in ThreadIds : Callback(t)
    \/ \E t \in ThreadIds : UseAfterFree(t)

\* One thread of the host calls the engine; one detached worker runs.
HostThreads == {"thread-1"}
WorkerThreads == {"thread-2"}

NextThreads == Threads(HostThreads, WorkerThreads)

SpecThreads == Init /\ [][NextThreads]_vars

(***************************************************************************)
(* The engine and the downloader side by side. The two objects share no    *)
(* state, so a run is a run of one of them with the other left as it was   *)
(* constructed.                                                            *)
(***************************************************************************)

engineAtRest == lastOp = "Impl"

downloaderAtRest ==
    /\ ~dlConfigured
    /\ cancelledDownloads = {}
    /\ dlLast = NoDlLast
    /\ \A t \in DlCalls : dlCalls[t] = IdleCall

\* One thread downloads one asset, from its id or from a URL; a second
\* thread calls download for the asset while the first has it in flight.
StatusCallers == {"caller-1"}
StatusAssets == {"asset-1"}
SecondCaller == "caller-2"

NextStatuses ==
    \/ downloaderAtRest /\ Next
    \/ engineAtRest /\ Downloads(StatusCallers, StatusAssets)
    \/ /\ engineAtRest
       /\ \E a \in activeDownloads : DownloadBegin(SecondCaller, a)
       /\ UNCHANGED <<batch, beyondDownloads>>

SpecStatuses == Init /\ [][NextStatuses]_vars

(***************************************************************************)
(* The downloader alone: one thread downloads one asset, while the asset   *)
(* is cancelled and deleted from other threads                             *)
(***************************************************************************)

DownloadCallers == {"caller-1"}
DownloadAssets == {"asset-1"}

NextDownloads ==
    \/ Downloads(DownloadCallers, DownloadAssets)
    \/ \E a \in DownloadAssets, deleted \in BOOLEAN :
           DeleteDownload(a, deleted) /\ UNCHANGED <<batch, beyondDownloads>>

SpecDownloads == Init /\ [][NextDownloads]_vars

(***************************************************************************)
(* Two threads and one asset: while the first thread downloads the asset,  *)
(* the second calls download for it                                        *)
(***************************************************************************)

NextSingleFlight ==
    \/ Downloads(DownloadCallers, DownloadAssets)
    \/ \E a \in activeDownloads :
           DownloadBegin(SecondCaller, a) /\ UNCHANGED <<batch, beyondDownloads>>

SpecSingleFlight == Init /\ [][NextSingleFlight]_vars

(***************************************************************************)
(* Two threads whose downloads resolve to one file name: the first         *)
(* downloads asset-1, the second downloads asset-2 or calls                *)
(* downloadFromUrl, and getAssetInfo names both assets alike. The network  *)
(* and the disk do not fail.                                               *)
(***************************************************************************)

\* The asset each of the two threads calls download for.
SameFileAsset(t) == IF t = "caller-1" THEN "asset-1" ELSE "asset-2"

SameFileCallers == {"caller-1", SecondCaller}

NextSameFile ==
    \/ DownloaderConfigure(FALSE) /\ UNCHANGED <<batch, beyondDownloads>>
    \/ \E t \in SameFileCallers :
           DownloadBegin(t, SameFileAsset(t)) /\ UNCHANGED <<batch, beyondDownloads>>
    \/ \E t \in SameFileCallers, info \in InfoNames :
           DownloadResolve(t, info, TRUE, "ok", TRUE)
           /\ UNCHANGED <<batch, beyondDownloads>>
    \/ \E f \in InfoNames :
           DownloadFromUrl(SecondCaller, f, "ok", TRUE)
           /\ UNCHANGED <<batch, beyondDownloads>>
    \/ \E t \in SameFileCallers : DownloadCheck(t) /\ UNCHANGED <<batch, beyondDownloads>>
    \/ \E t \in SameFileCallers :
           DownloadChunk(t, TRUE, TRUE) /\ UNCHANGED <<batch, beyondDownloads>>
    \/ \E t \in SameFileCallers, moved \in BOOLEAN :
           DownloadMove(t, moved, TRUE) /\ UNCHANGED <<batch, beyondDownloads>>

SpecSameFile == Init /\ [][NextSameFile]_vars

(***************************************************************************)
(* downloadBatch: one detached thread downloads the assets of a list       *)
(***************************************************************************)

\* The base of the downloader, which the steps of the batch thread that are
\* not inside download leave alone.
downloader ==
    <<dlConfigured, skipExisting, activeDownloads, cancelledDownloads,
      downloadedAssets, targetFiles, tempFiles, dlCalls, dlLast,
      cancelRequested, obtained>>

\* downloadBatch(assetIds, progressCallback, completionCallback): the thread
\* is started with its three counters at 0.
DownloadBatch(assetIds, hasCb) ==
    /\ batch.pc = "none"
    /\ batch' = [NoBatch EXCEPT !.pc = "loop", !.assetIds = assetIds, !.hasCb = hasCb]
    /\ UNCHANGED downloader

\* BatchTurn that starts the next download while one is in flight.
BatchTurn_NoWait ==
    /\ batch.pc \in {"loop", "download"}
    /\ IF batch.current = Len(batch.assetIds) \/ cancelRequested
       THEN batch' = [batch EXCEPT !.pc = "callback"]
       ELSE batch' = [batch EXCEPT !.pc = "download", !.current = @ + 1]
    /\ UNCHANGED downloader

\* The head of a turn of the for loop: the list is at its end or
\* cancelRequested breaks the loop, else idx = ++current.
BatchTurn ==
    /\ batch.pc = "loop"
    /\ IF batch.current = Len(batch.assetIds) \/ cancelRequested
       THEN batch' = [batch EXCEPT !.pc = "callback"]
       ELSE batch' = [batch EXCEPT !.pc = "download", !.current = @ + 1]
    /\ UNCHANGED downloader

\* BatchTally that leaves the loop at the first download that fails.
BatchTally_AbortOnFailure(b) ==
    batch' =
        IF dlCalls'[BatchThread].pc # "idle" THEN b
        ELSE IF dlLast'.status \in {"Success", "AlreadyExists"}
        THEN [b EXCEPT !.pc = "loop", !.succeeded = @ + 1,
                       !.results = Append(@, dlLast'.status)]
        ELSE [b EXCEPT !.pc = "callback", !.failed = @ + 1,
                       !.results = Append(@, dlLast'.status)]

\* The rest of the turn, when download has returned in this step:
\* ++succeeded for Success and AlreadyExists, ++failed for any other status.
\* b is the record of the thread as the step found it.
BatchTally(b) ==
    batch' =
        IF dlCalls'[BatchThread].pc # "idle" THEN b
        ELSE IF dlLast'.status \in {"Success", "AlreadyExists"}
        THEN [b EXCEPT !.pc = "loop", !.succeeded = @ + 1,
                       !.results = Append(@, dlLast'.status)]
        ELSE [b EXCEPT !.pc = "loop", !.failed = @ + 1,
                       !.results = Append(@, dlLast'.status)]

\* download(assetId, wrappedProgress) is called for the asset of the turn.
BatchDownloadBegin ==
    /\ batch.pc = "download"
    /\ dlCalls[BatchThread].pc = "idle"
    /\ DownloadBegin(BatchThread, batch.assetIds[batch.current])
    /\ BatchTally([batch EXCEPT !.attempted =
                      Append(@, batch.assetIds[batch.current])])

\* After the loop: completionCallback(succeeded, failed), if one was given.
BatchCallback ==
    /\ batch.pc = "callback"
    /\ batch' = IF batch.hasCb
                THEN [batch EXCEPT !.pc = "done", !.cbCount = @ + 1,
                                   !.cbSucceeded = batch.succeeded,
                                   !.cbFailed = batch.failed]
                ELSE [batch EXCEPT !.pc = "done"]
    /\ UNCHANGED downloader

\* The lists downloadBatch is called with.
BatchLists ==
    {<<"asset-1">>, <<"asset-1", "asset-2">>, <<"asset-2", "asset-1", "asset-2">>}

\* getAssetInfo gives the batch no name: every asset is saved under its id.
BatchInfos == {""}

NextBatch ==
    \/ \E skip \in BOOLEAN :
           DownloaderConfigure(skip) /\ UNCHANGED <<batch, beyondDownloads>>
    \/ \E l \in BatchLists, hasCb \in BOOLEAN :
           DownloadBatch(l, hasCb) /\ UNCHANGED beyondDownloads
    \/ BatchTurn /\ UNCHANGED beyondDownloads
    \/ BatchDownloadBegin /\ UNCHANGED beyondDownloads
    \/ \E info \in BatchInfos, hasUrl \in BOOLEAN,
          stream \in StreamOutcomes, out \in BOOLEAN :
           DownloadResolve(BatchThread, info, hasUrl, stream, out)
           /\ BatchTally(batch) /\ UNCHANGED beyondDownloads
    \/ DownloadCheck(BatchThread) /\ BatchTally(batch) /\ UNCHANGED beyondDownloads
    \/ \E data \in BOOLEAN, written \in BOOLEAN :
           DownloadChunk(BatchThread, data, written)
           /\ BatchTally(batch) /\ UNCHANGED beyondDownloads
    \/ \E moved \in BOOLEAN :
           DownloadMove(BatchThread, moved, TRUE)
           /\ BatchTally(batch) /\ UNCHANGED beyondDownloads
    \/ BatchCallback /\ UNCHANGED beyondDownloads
    \/ \E a \in AssetIds : Cancel(a) /\ UNCHANGED <<batch, beyondDownloads>>
    \/ CancelAll /\ UNCHANGED <<batch, beyondDownloads>>

SpecBatch == Init /\ [][NextBatch]_vars

(***************************************************************************)
(* downloadBatch after cancelAll: cancelAll is called only before the      *)
(* batch is started, and no cancel is called while it runs                 *)
(***************************************************************************)

NextBatchAfterCancel ==
    \/ \E skip \in BOOLEAN :
           DownloaderConfigure(skip) /\ UNCHANGED <<batch, beyondDownloads>>
    \/ batch.pc = "none" /\ CancelAll /\ UNCHANGED <<batch, beyondDownloads>>
    \/ \E l \in BatchLists, hasCb \in BOOLEAN :
           DownloadBatch(l, hasCb) /\ UNCHANGED beyondDownloads
    \/ BatchTurn /\ UNCHANGED beyondDownloads
    \/ BatchDownloadBegin /\ UNCHANGED beyondDownloads
    \/ \E info \in BatchInfos, hasUrl \in BOOLEAN,
          stream \in StreamOutcomes, out \in BOOLEAN :
           DownloadResolve(BatchThread, info, hasUrl, stream, out)
           /\ BatchTally(batch) /\ UNCHANGED beyondDownloads
    \/ DownloadCheck(BatchThread) /\ BatchTally(batch) /\ UNCHANGED beyondDownloads
    \/ \E data \in BOOLEAN, written \in BOOLEAN :
           DownloadChunk(BatchThread, data, written)
           /\ BatchTally(batch) /\ UNCHANGED beyondDownloads
    \/ \E moved \in BOOLEAN :
           DownloadMove(BatchThread, moved, TRUE)
           /\ BatchTally(batch) /\ UNCHANGED beyondDownloads
    \/ BatchCallback /\ UNCHANGED beyondDownloads

SpecBatchAfterCancel == Init /\ [][NextBatchAfterCancel]_vars

(***************************************************************************)
(* MachineId beside the engine that sends it                               *)
(***************************************************************************)

\* MachineId::generate(), as a thread of the process calls it.
Generate ==
    /\ fingerprints' =
           [fingerprints EXCEPT
               !.called = TRUE,
               !.of = machine,
               !.first = IF fingerprints.called /\ fingerprints.of = machine
                         THEN @ ELSE generate(machine),
               !.full = generate(machine)]
    /\ UNCHANGED <<engineVars, memo, dlVars, threadVars>>

\* MachineId::generateShort()
GenerateShort ==
    /\ fingerprints' =
           [fingerprints EXCEPT
               !.shortCalled = TRUE,
               !.shortOf = machine,
               !.short = generateShort(machine)]
    /\ UNCHANGED <<engineVars, memo, dlVars, threadVars>>

NextMachineId ==
    \/ NextAccessors
    \/ Generate
    \/ GenerateShort

SpecMachineId == Init /\ [][NextMachineId]_vars

(***************************************************************************)
(* The engine as a host uses it: construction, activate, deactivate and    *)
(* validate, one after the other, with no direct call of loadState,        *)
(* saveState or clearState                                                 *)
(***************************************************************************)

NextLifecycle ==
    \/ \E cp \in ConfigPaths, m \in MachineInfos :
           Create(cp, m) /\ UNCHANGED others
    \/ \E c \in Codes, r \in ActivateReplies, now \in LocalTimestamps :
           Activate(c, r, now) /\ UNCHANGED others
    \/ \E r \in DeactivateReplies : Deactivate(r) /\ UNCHANGED others
    \/ \E r \in ValidateReplies : Validate(r) /\ UNCHANGED others

SpecLifecycle == Init /\ [][NextLifecycle]_vars

(***************************************************************************)
(* Overlapping calls on one engine: a first thread of the host calls       *)
(* deactivate and validate while a second calls activate and deactivate.   *)
(* The engine is constructed once, on a fresh install.                     *)
(***************************************************************************)

FirstThread == "thread-1"
SecondThread == "thread-2"

\* The operations each of the two threads calls.
OverlapOps(t) ==
    IF t = FirstThread THEN {"deactivate", "validate"} ELSE {"activate", "deactivate"}

NextOverlap ==
    \/ ~configured /\ \E cp \in ConfigPaths : CreateWithConfig(cp, machine, validateOnStartup)
    \/ \E t \in {FirstThread, SecondThread}, c \in Codes :
           \E op \in OverlapOps(t) : Call(t, op, IF op = "activate" THEN c ELSE "")
    \/ \E t \in ThreadIds : Begin(t)
    \/ \E t \in ThreadIds : Lock(t)
    \/ \E t \in ThreadIds : Check(t)
    \/ \E t \in ThreadIds, r \in FewActivateReplies, now \in LocalTimestamps :
           ActivateReply(t, r, now)
    \/ \E t \in ThreadIds, r \in FewDeactivateReplies : DeactivateReply(t, r)
    \/ \E t \in ThreadIds, r \in FewValidateReplies : ValidateReply(t, r)
    \/ \E t \in ThreadIds, now \in LocalTimestamps : Update(t, now)
    \/ \E t \in ThreadIds : SaveRead(t)
    \/ \E t \in ThreadIds : SaveWrite(t)
    \/ \E t \in ThreadIds : Clear(t)
    \/ \E t \in ThreadIds : ClearDelete(t)
    \/ \E t \in ThreadIds : SetValid(t)

SpecOverlap == Init /\ [][NextOverlap]_vars

(***************************************************************************)
(* Properties                                                              *)
(***************************************************************************)

\* The state file at the engine's state path.
stateFile == IF statePath \in DOMAIN disk THEN disk[statePath] ELSE NoFile

\* Every field of the record except isValid.
recordFields(info) ==
    <<info.activationCode, info.machineId, info.activatedAt, info.expiresAt,
      info.currentActivations, info.maxActivations>>

\* C1: isActivated() returns true exactly when the activated flag and
\* activationInfo.isValid are both true; a record that validate() has just
\* marked invalid gives isActivated() = false while getActivationInfo() still
\* returns the record.
C1_IsActivatedIffFlags ==
    /\ lastOp = "isActivated" =>
           lastReturn.flag = (activated /\ activationInfo.isValid)
    /\ (lastOp = "validate" /\ lastStatus \in {"Invalid", "Revoked"}) =>
           /\ ~isActivated
           /\ getActivationInfo.present
           /\ getActivationInfo.info.activationCode = lastRequest.code

\* isActivated() was called on a record that validate() had marked invalid.
C1_Witness ==
    /\ lastOp = "isActivated"
    /\ lastReturn.flag = FALSE
    /\ activated
    /\ ~activationInfo.isValid
    /\ activationInfo.activationCode \in Codes

\* C2: when activate(c) has returned Valid, isActivated() is true and
\* getActivationInfo() is present with activationCode = c and machineId = the
\* fingerprint sent in the request.
C2_ActivateValidActivates ==
    (lastOp = "activate" /\ lastStatus = "Valid") =>
        /\ lastRequest.sent
        /\ isActivated
        /\ getActivationInfo.present
        /\ getActivationInfo.info.activationCode = lastRequest.code
        /\ getActivationInfo.info.machineId = lastRequest.machine_id
        /\ lastRequest.machine_id = generate(machine)

\* activate returned Valid on an engine whose state file held another record.
C2_Witness ==
    /\ lastOp = "activate"
    /\ lastStatus = "Valid"
    /\ activationInfo.activationCode = "CODE-B"
    /\ activationInfo.activatedAt = "NOW"
    /\ isActivated

\* C3: an activate that returns a status other than Valid returns one of
\* Invalid, Revoked, MaxReached, NetworkError, ServerError, NotConfigured and
\* leaves the activated flag, activationInfo and the state file as they were.
C3_FailedActivateChangesNothing ==
    [][(lastOp' = "activate" /\ lastStatus' # "Valid") =>
          /\ lastStatus' \in {"Invalid", "Revoked", "MaxReached", "NetworkError",
                              "ServerError", "NotConfigured"}
          /\ activated' = activated
          /\ activationInfo' = activationInfo
          /\ disk' = disk]_vars

\* activate was rejected on an engine that was already activated.
C3_Witness ==
    /\ lastOp = "activate"
    /\ lastStatus = "Invalid"
    /\ lastRequest.sent
    /\ isActivated
    /\ activationInfo.activationCode \in Codes
    /\ activationInfo.activationCode # lastRequest.code
    /\ stateFile.exists

C5_FailedDeactivateKeepsActivation ==
    [][(lastOp' = "deactivate" /\ configured /\ activated /\ lastStatus' # "Valid") =>
          /\ lastStatus' \in {"NetworkError", "ServerError"}
          /\ activated' = activated
          /\ activationInfo' = activationInfo
          /\ disk' = disk]_vars

\* deactivate failed on an activated engine and the activation is still there.
C5_Witness ==
    /\ lastOp = "deactivate"
    /\ lastStatus \in {"NetworkError", "ServerError"}
    /\ lastRequest.sent
    /\ isActivated
    /\ activationInfo.activationCode \in Codes
    /\ stateFile.exists

\* C6: activate on an unconfigured engine returns NotConfigured; deactivate
\* and validate return NotConfigured when unconfigured and NotActivated when
\* configured with the activated flag false; in each case no request is sent
\* and neither memory nor disk changes.
C6_PreconditionsFailFast ==
    [][/\ (lastOp' \in {"activate", "deactivate", "validate"} /\ ~configured) =>
              /\ lastStatus' = "NotConfigured"
              /\ ~lastRequest'.sent
              /\ UNCHANGED <<engine, disk>>
       /\ (lastOp' \in {"deactivate", "validate"} /\ configured /\ ~activated) =>
              /\ lastStatus' = "NotActivated"
              /\ ~lastRequest'.sent
              /\ UNCHANGED <<engine, disk>>]_vars

\* validate was refused on a configured engine that is not activated.
C6_Witness ==
    /\ lastOp = "validate"
    /\ lastStatus = "NotActivated"
    /\ configured
    /\ ~activated
    /\ ~lastRequest.sent

\* C7: validate() changes at most isValid: the activated flag, every other
\* field of activationInfo and the state file are the same after it as before.
C7_ValidateChangesOnlyIsValid ==
    [][lastOp' = "validate" =>
          /\ activated' = activated
          /\ recordFields(activationInfo') = recordFields(activationInfo)
          /\ disk' = disk]_vars

\* validate reported a revoked license and the record is kept, marked invalid.
C7_Witness ==
    /\ lastOp = "validate"
    /\ lastStatus = "Revoked"
    /\ activated
    /\ ~activationInfo.isValid
    /\ activationInfo.activationCode \in Codes
    /\ activationInfo.currentActivations > 0
    /\ stateFile.exists /\ stateFile.is_valid

\* C8: an engine constructed right after activate returned Valid, with the
\* same state path and on the same machine, reports isActivated() = true.
C8_RestartKeepsActivation ==
    (lastOp = "create" /\ prev.op = "activate" /\ prev.status = "Valid"
        /\ prev.machine = machine) =>
        isActivated

\* An engine was constructed after a Valid activate and found its state file.
C8_Witness ==
    /\ lastOp = "create"
    /\ prev.op = "activate"
    /\ prev.status = "Valid"
    /\ prev.machine = machine
    /\ stateFile.exists
    /\ stateFile.activation_code \in Codes
    /\ isActivated

\* C9: after loading a state file whose stored machine_id differs from the
\* fingerprint of the current machine, isActivated() is false.
C9_MachineMismatchInvalidates ==
    (lastOp \in {"create", "loadState"} /\ stateFile.exists /\ stateFile.wellFormed
        /\ stateFile.machine_id # generate(machine)) =>
        ~isActivated

\* C10: after loading a state file that exists but is malformed, the engine
\* is not activated.
C10_CorruptFileIsNoState ==
    (lastOp = "create" /\ stateFile.exists /\ ~stateFile.wellFormed) =>
        /\ ~isActivated
        /\ ~activated

\* C11: isActivated() and getActivationInfo() return what they returned
\* before as long as no activate, deactivate, validate or loadState (nor a
\* construction) came in between, and a call of either changes neither the
\* engine nor the disk and sends no request.
C11_AccessorsArePure ==
    [][/\ (lastOp' = "isActivated" /\ memo.flagCalls > 0) =>
              lastReturn'.flag = memo.flag
       /\ (lastOp' = "getActivationInfo" /\ memo.infoCalls > 0) =>
              /\ lastReturn'.present = memo.present
              /\ lastReturn'.info = memo.info
       /\ lastOp' \in {"isActivated", "getActivationInfo"} =>
              /\ UNCHANGED <<engine, disk>>
              /\ ~lastRequest'.sent]_vars

\* Both accessors were called again, on an activated engine whose state file
\* had been removed in between.
C11_Witness ==
    /\ lastOp = "getActivationInfo"
    /\ memo.flagCalls = MaxCalls
    /\ memo.infoCalls = MaxCalls
    /\ memo.flag
    /\ memo.present
    /\ memo.info.activationCode \in Codes
    /\ ~stateFile.exists

\* The last operation sent a request and the server answered with a JSON
\* object that carries an error field.
errorReplied(op) ==
    /\ lastOp = op
    /\ lastRequest.sent
    /\ lastReply.kind = "object"
    /\ lastReply.hasError

\* The last operation sent a request that failed before any JSON object was
\* read; the status this gives is the same in the three operations.
transportStatusIsUniform ==
    (lastOp \in {"activate", "deactivate", "validate"} /\ lastRequest.sent) =>
        /\ lastReply.kind = "noStream" => lastStatus = "NetworkError"
        /\ lastReply.kind \in {"notJson", "notObject"} => lastStatus = "ServerError"

\* The status the error text of the last reply stands for: Invalid, then
\* Revoked, then MaxReached, else ServerError.
uniformErrorStatus ==
    IF Find(lastReply.error, NeedleInvalid) THEN "Invalid"
    ELSE IF Find(lastReply.error, NeedleRevoked) THEN "Revoked"
    ELSE IF Find(lastReply.error, NeedleMaximum) \/ Find(lastReply.error, NeedleLimit)
         THEN "MaxReached"
    ELSE "ServerError"

C14_ValidateFollowsValidField ==
    (lastOp = "validate" /\ lastRequest.sent /\ lastReply.kind = "object"
        /\ ~lastReply.hasError) =>
        /\ lastStatus = IF lastReply.valid = "true" THEN "Valid" ELSE "Invalid"
        /\ activationInfo.isValid = (lastReply.valid = "true")

\* validate was answered by an object with neither error nor valid field.
C14_Witness ==
    /\ lastOp = "validate"
    /\ lastRequest.sent
    /\ lastReply.kind = "object"
    /\ ~lastReply.hasError
    /\ lastReply.valid = "absent"
    /\ lastStatus = "Invalid"
    /\ activated
    /\ ~activationInfo.isValid

\* C15: after activate returned Valid, currentActivations is the reply's
\* activations field, or its current_activations field when activations is
\* absent; maxActivations is the reply's max_activations; activatedAt is the
\* reply's activated_at, or a local timestamp when that is absent.
C15_ActivateCopiesReplyFields ==
    (lastOp = "activate" /\ lastStatus = "Valid") =>
        /\ lastReply.has_activations =>
               getActivationInfo.info.currentActivations = lastReply.activations
        /\ (~lastReply.has_activations /\ lastReply.has_current_activations) =>
               getActivationInfo.info.currentActivations = lastReply.current_activations
        /\ lastReply.has_max_activations =>
               getActivationInfo.info.maxActivations = lastReply.max_activations
        /\ lastReply.has_activated_at =>
               getActivationInfo.info.activatedAt = lastReply.activated_at
        /\ ~lastReply.has_activated_at =>
               getActivationInfo.info.activatedAt \in LocalTimestamps

\* activate returned Valid for a reply that carries both counts, with
\* different values, and no timestamp.
C15_Witness ==
    /\ lastOp = "activate"
    /\ lastStatus = "Valid"
    /\ lastReply.has_activations
    /\ lastReply.has_current_activations
    /\ lastReply.activations # lastReply.current_activations
    /\ lastReply.has_max_activations
    /\ ~lastReply.has_activated_at
    /\ activationInfo.currentActivations = lastReply.activations

C20_RequestCarriesStoredActivation ==
    [][(lastOp' \in {"deactivate", "validate"} /\ lastRequest'.sent
          /\ stateFile.wellFormed /\ stateFile.activation_code \in Codes) =>
          /\ lastRequest'.code = stateFile.activation_code
          /\ lastRequest'.machine_id = stateFile.machine_id]_vars

\* C12: activate, deactivate and validate return a member of ActivationStatus
\* and download and downloadFromUrl return a member of DownloadStatus, for
\* every outcome of the connection, the server's answer and the disk.
C12_StatusesAreEnumerated ==
    /\ lastOp \in {"activate", "deactivate", "validate"} => lastStatus \in ActivationStatus
    /\ dlLast.op \in {"download", "downloadFromUrl"} => dlLast.status \in DownloadStatus

\* A download came back from a server that answered 403.
C12_Witness ==
    /\ dlLast.op = "download"
    /\ dlLast.status = "Unauthorized"
    /\ dlLast.path = ""
    /\ activeDownloads = {}

\* A thread is at a read or a write of activated or activationInfo.
inAccess(t) == threads[t].pc \in AccessPcs

\* C17: a worker started by activateAsync(code, cb) or validateAsync(cb) with
\* a callback has, when it ends, called the callback exactly once, with the
\* status of its activate or validate.
C17_CallbackExactlyOnce ==
    \A t \in ThreadIds :
        (threads[t].async /\ threads[t].hasCb /\ threads[t].pc \in {"done", "crashed"}) =>
            /\ threads[t].cbCount = 1
            /\ threads[t].cbStatus = threads[t].status

\* C18: a thread reads or writes activated or activationInfo only while it
\* holds the mutex, so no two threads are at such an access at once.
C18_StateAccessUnderMutex ==
    alive =>
        /\ \A t \in ThreadIds : inAccess(t) => mutex = t
        /\ \A t1, t2 \in ThreadIds : (inAccess(t1) /\ inAccess(t2)) => t1 = t2

\* C19: once an engine is constructed with validateOnStartup set, over the
\* state file of an activation, a validate is running on a background thread.
C19_StartupValidationScheduled ==
    (lastOp = "create" /\ validateOnStartup /\ activated) =>
        \E t \in ThreadIds :
            /\ threads[t].op = "validate"
            /\ threads[t].async
            /\ threads[t].pc \notin {"idle"}

\* The call of thread t returns in this step.
returns(t) == dlCalls[t].pc # "idle" /\ dlCalls'[t].pc = "idle"

C22_TargetFilesAreComplete ==
    \A f \in FileNames : targetFiles[f].exists => targetFiles[f].chunks = Chunks

\* C23: a download that finds, with skipExisting set, a file at its computed
\* target path returns AlreadyExists with that path and has issued no network
\* request.
C23_ExistingFileSkipsTheNetwork ==
    (dlLast.op = "download" /\ dlLast.cause = "exists") =>
        /\ dlLast.status = "AlreadyExists"
        /\ dlLast.path \in FileNames
        /\ dlLast.requests = {}

cancelledWhileStreaming(t) ==
    /\ dlCalls[t].op = "download"
    /\ dlCalls[t].pc \in {"streaming", "reading"}
    /\ dlCalls[t].read < Chunks
    /\ dlCalls[t].assetId \in cancelledDownloads

\* C26 as stated: once the cancellation of its asset is recorded, a streaming
\* download with a buffer still to come reads and writes no further buffer,
\* returns Cancelled and leaves the active set.
C26_NoChunkAfterCancel ==
    [][\A t \in DlCalls :
          (cancelledWhileStreaming(t) /\ dlCalls'[t] # dlCalls[t]) =>
              /\ dlCalls'[t].pc = "idle"
              /\ dlLast'.status = "Cancelled"
              /\ tempFiles'[dlCalls[t].fileName].chunks <= tempFiles[dlCalls[t].fileName].chunks
              /\ dlCalls[t].assetId \notin activeDownloads']_vars

\* C26, amended: cancellation is looked for once before each buffer. A
\* download that comes to that check with the cancellation of its asset
\* recorded reads and writes no further buffer, returns Cancelled with no temp
\* file left and leaves the active set; a cancellation recorded after the
\* check is not seen before the next check, so the buffer in hand is still
\* read and written.
C26_CancelSeenAtNextCheck ==
    [][\A t \in DlCalls :
          (cancelledWhileStreaming(t) /\ dlCalls'[t] # dlCalls[t]) =>
              IF dlCalls[t].pc = "streaming"
              THEN /\ dlCalls'[t].pc = "idle"
                   /\ dlLast'.status = "Cancelled"
                   /\ dlLast'.call = t
                   /\ ~tempFiles'[dlCalls[t].fileName].exists
                   /\ dlCalls[t].assetId \notin activeDownloads'
                   /\ dlCalls[t].assetId \notin cancelledDownloads'
              ELSE /\ dlCalls'[t].pc = "idle" => dlLast'.status # "Cancelled"
                   /\ dlCalls[t].assetId \in cancelledDownloads']_vars

\* A download found its asset cancelled at the check before a buffer and
\* returned Cancelled, beside the file an earlier download had left.
C26_Witness ==
    /\ dlLast.op = "download"
    /\ dlLast.cause = "cancel"
    /\ dlLast.status = "Cancelled"
    /\ dlLast.assetId \notin activeDownloads
    /\ \A f \in FileNames : ~tempFiles[f].exists
    /\ \E f \in FileNames : targetFiles[f].exists

\* C27: with verifyChecksums set, a download that has received a body that
\* is not the one the checksum of its asset info was taken of returns
\* Corrupted with no path and is not recorded as downloaded.
C27_MismatchIsCorrupted ==
    (verifyChecksums /\ dlLast.op = "download" /\ dlLast.cause = "done"
     /\ ~dlLast.matches /\ dlLast.path \notin AssetIds) =>
        /\ dlLast.status = "Corrupted"
        /\ dlLast.path = ""
        /\ downloadedAssets[dlLast.assetId] = ""

countOf(set) ==
    Cardinality({i \in 1..Len(batch.results) : batch.results[i] \in set})

\* C24: downloadBatch calls download for the asset ids of its list in order,
\* going on after one that fails, and then calls its completion callback
\* exactly once, with succeeded the number of downloads that returned Success
\* or AlreadyExists and failed the number of the others; unless cancelAll has
\* set cancelRequested, every id of the list was attempted and succeeded +
\* failed is the length of the list.
C24_BatchCountsEveryAsset ==
    /\ batch.attempted = SubSeq(batch.assetIds, 1, Len(batch.attempted))
    /\ batch.cbCount = IF batch.pc = "done" /\ batch.hasCb THEN 1 ELSE 0
    /\ (batch.pc = "done" /\ batch.hasCb) =>
          /\ Len(batch.results) = Len(batch.attempted)
          /\ batch.cbSucceeded = countOf({"Success", "AlreadyExists"})
          /\ batch.cbFailed = countOf(DownloadStatus \ {"Success", "AlreadyExists"})
          /\ batch.cbSucceeded + batch.cbFailed = Len(batch.attempted)
          /\ ~cancelRequested =>
                /\ batch.attempted = batch.assetIds
                /\ batch.cbSucceeded + batch.cbFailed = Len(batch.assetIds)

\* A batch of three whose second download failed with NotFound reported
\* succeeded = 2 and failed = 1.
C24_Witness ==
    /\ batch.pc = "done"
    /\ ~cancelRequested
    /\ Len(batch.assetIds) = 3
    /\ batch.results[2] = "NotFound"
    /\ batch.cbCount = 1
    /\ batch.cbSucceeded = 2
    /\ batch.cbFailed = 1

\* The downloads the batch thread has started and not yet counted.
inFlight == batch.current - (batch.succeeded + batch.failed)

HexDigits ==
    {"0", "1", "2", "3", "4", "5", "6", "7", "8", "9", "a", "b", "c", "d", "e", "f"}

\* s is a string of n hex digits.
isHex(s, n) ==
    /\ Len(s) = n
    /\ \A i \in 1..Len(s) : SubSeq(s, i, i) \in HexDigits

C31_FileExistsIffActivated ==
    disk[DefaultStatePath].exists <=> activated

\* An engine constructed over the state file of an earlier activation is
\* deactivated: the flag and the file are gone together.
C31_Witness ==
    /\ lastOp = "deactivate"
    /\ lastStatus = "Valid"
    /\ ~activated
    /\ ~disk[DefaultStatePath].exists
    /\ lastRequest.code = ""

\* No thread is inside a call of the engine.
allReturned == \A t \in ThreadIds : threads[t].pc \in RestPcs

\* C32: when a deactivate and an activate have run at the same time on one
\* engine and both have returned, the state file exists exactly when the
\* activated flag is set, and its activation_code is that of the record.
C32_PersistedAgreesWithMemory ==
    allReturned =>
        /\ stateFile.exists <=> activated
        /\ stateFile.exists => stateFile.activation_code = activationInfo.activationCode

\* The block of validate that writes isValid is run by thread t in this step.
setsValid(t) ==
    threads[t].pc = "validate:setValid" /\ threads'[t].pc # "validate:setValid"

\* C33: the outcome of a validate is applied to the activation it validated
\* only: when the record no longer holds the code validate sent, because an
\* activate of another code replaced it or a deactivate cleared it while the
\* request was in flight, the reply leaves isValid of the record as it is.
C33_ValidateAppliesToItsActivation ==
    [][\A t \in ThreadIds :
          (setsValid(t) /\ threads[t].code # activationInfo.activationCode) =>
              activationInfo'.isValid = activationInfo.isValid]_vars

\* C34: saving and loading the record is a round trip: the engine constructed
\* over the state file that an activate answered Valid has just written
\* reports an activation with the activationCode, machineId, activatedAt,
\* currentActivations and maxActivations of the engine that wrote it.
C34_SaveLoadRoundTrip ==
    [][(lastOp = "activate" /\ lastStatus = "Valid" /\ lastOp' = "create") =>
          /\ activated'
          /\ activationInfo'.activationCode = activationInfo.activationCode
          /\ activationInfo'.machineId = activationInfo.machineId
          /\ activationInfo'.activatedAt = activationInfo.activatedAt
          /\ activationInfo'.currentActivations = activationInfo.currentActivations
          /\ activationInfo'.maxActivations = activationInfo.maxActivations]_vars

\* The positions at which a thread waits for the reply of the server.
AwaitPcs == {"activate:await", "deactivate:await", "validate:await"}

\* Thread t takes a step of its operation that reads or writes the engine:
\* configured, the mutex, activated, activationInfo or statePath.
touches(t) ==
    /\ threads[t].pc \notin RestPcs \cup AwaitPcs \cup {"callback"}
    /\ threads'[t].pc # threads[t].pc

\* C35: once an Activation that Activation::create built is destroyed, no
\* worker of activateAsync or validateAsync reads or writes the engine any
\* more.
C35_NoAccessAfterDestroy ==
    [][\A t \in ThreadIds : (configured /\ ~alive) => ~touches(t)]_vars

\* The call of thread t registers its asset in the active set in this step.
registers(t) == dlCalls[t].pc = "idle" /\ dlCalls'[t].pc = "registered"

\* C36: a cancel reaches only the download that is in flight when it is
\* called: the cancelled set holds no asset without an active download, so a
\* download that starts finds no cancellation of its asset waiting for it.
C36_CancelReachesOnlyActiveDownload ==
    [][\A t \in DlCalls :
          registers(t) => dlCalls'[t].assetId \notin cancelledDownloads]_vars

\* C37: cancelAll cancels the downloads that are active when it is called
\* and no later one: a downloadBatch started after cancelAll has returned
\* attempts every asset of its list, and its succeeded and failed add up to
\* the length of the list.
C37_BatchAfterCancelAllRuns ==
    (batch.pc = "done" /\ batch.hasCb /\ dlConfigured /\ cancelRequested) =>
        /\ batch.attempted = batch.assetIds
        /\ batch.cbSucceeded + batch.cbFailed = Len(batch.assetIds)

\* The threads that are inside download(assetId), past its registration.
downloading(assetId) ==
    {t \in DlCalls : /\ dlCalls[t].op = "download"
                     /\ dlCalls[t].pc # "idle"
                     /\ dlCalls[t].assetId = assetId}

\* The call of download by thread t returns in this step because the asset
\* is active.
refused(t) ==
    /\ dlCalls[t].pc = "idle"
    /\ dlCalls'[t].pc = "idle"
    /\ dlLast' # dlLast
    /\ dlLast'.call = t
    /\ dlLast'.cause = "active"

\* C38: an asset id is in the active set exactly while one call of download
\* for it is between its registration and its return, whatever the way it
\* returns, so that isDownloading() is false when no download is in flight;
\* a second download of the id made meanwhile returns at once, transfers
\* nothing and leaves the entry of the first.
C38_ActiveSetIsSingleFlight ==
    [][/\ \A a \in AssetIds :
              /\ a \in activeDownloads' <=> downloading(a)' # {}
              /\ Cardinality(downloading(a)') <= 1
       /\ isDownloading' <=> (\E a \in AssetIds : downloading(a)' # {})
       /\ \A t \in DlCalls :
              refused(t) =>
                  /\ dlLast'.requests = {}
                  /\ dlLast'.path = ""
                  /\ dlLast'.assetId \in activeDownloads'
                  /\ \A a \in AssetIds : downloading(a)' = downloading(a)
                  /\ UNCHANGED <<activeDownloads, downloadedAssets, targetFiles,
                                 tempFiles>>]_vars

\* While the first thread is reading the body of asset-1, the second has
\* called download for it and has returned at once; the entry is there.
C38_Witness ==
    /\ dlLast.call = SecondCaller
    /\ dlLast.cause = "active"
    /\ dlLast.requests = {}
    /\ dlCalls["caller-1"].pc = "reading"
    /\ dlCalls["caller-1"].read = 1
    /\ dlCalls[SecondCaller].pc = "idle"
    /\ activeDownloads = {"asset-1"}
    /\ isDownloading

\* Thread t is inside downloadFromUrlInternal with its temp file created:
\* it writes the temp file and then moves it to the target.
writing(t) == dlCalls[t].pc \in {"streaming", "reading", "moving"}

\* C39: two downloads that run at the same time on one downloader never have
\* the same temp file and target file, also when two asset ids resolve to one
\* file name and when a downloadFromUrl runs beside a download of that name.
C39_NoTwoWritersOfOneFile ==
    \A t1, t2 \in DlCalls :
        (t1 # t2 /\ writing(t1) /\ writing(t2)) =>
            dlCalls[t1].fileName # dlCalls[t2].fileName

====
